---- MODULE Spec2Model ----
(***************************************************************************)
(* The RPC access layer of backend/main.go (SolanaRPCClient): the per-     *)
(* method rate limiter, the Retry-After parser, the transport call and the *)
(* retrying caller makeRPCCallWithRetry, run by concurrent callers on one  *)
(* client instance.  Time is in whole seconds (time.Second = 1).  A point  *)
(* in time (a time.Time) is kept as the time elapsed since it, which is    *)
(* what time.Since computes and Tick advances; elapsed times at or above   *)
(* Horizon are not told apart.                                             *)
(***************************************************************************)
EXTENDS Integers, Sequences, FiniteSets, TLC

(***************************************************************************)
(* Bounds of the model.                                                    *)
(***************************************************************************)
Horizon == 3

Callers == {1, 2}
Methods == {"getTokenLargestAccounts", "getSlot"}

(***************************************************************************)
(* Program constants, in seconds where they are durations.                 *)
(***************************************************************************)
maxRetries == 3
baseDelay == 1
RateLimitInterval == 2
RateLimitCooldown == 2
MaxRetryAfter == 300
StatusTooManyRequests == 429
Second == 1

Max(a, b) == IF a >= b THEN a ELSE b
Min(a, b) == IF a <= b THEN a ELSE b

RECURSIVE Pow2(_)
Pow2(n) == IF n <= 0 THEN 1 ELSE 2 * Pow2(n - 1)

(***************************************************************************)
(* Values.  A header string is either text (a sequence of characters) or   *)
(* a date written in one of the time layouts, denoting the instant that is *)
(* until seconds after the time it is read (before it when negative).      *)
(***************************************************************************)
Text(chars) == [kind |-> "text", chars |-> chars]
DateString(layout, until) == [kind |-> "date", layout |-> layout, until |-> until]
EmptyString == Text(<<>>)

JNull == [kind |-> "null"]
JNumber(n) == [kind |-> "number", n |-> n]
JString(s) == [kind |-> "string", s |-> s]
JObject(fields) == [kind |-> "object", fields |-> fields]

\* map assignment m[k] = v on a JSON object
SetField(obj, k, v) ==
    JObject([f \in DOMAIN obj.fields \cup {k} |-> IF f = k THEN v ELSE obj.fields[f]])

\* type RPCResponse struct { Result, Error interface{} }, behind a pointer
RPCResponse(result, error) == [isNil |-> FALSE, Result |-> result, Error |-> error]
NilResponse == [isNil |-> TRUE, Result |-> JNull, Error |-> JNull]
NoError == "nil"

(***************************************************************************)
(* strconv.Atoi: an optional sign followed by one or more decimal digits.  *)
(***************************************************************************)
DigitChars == {"0", "1", "2", "3", "4", "5", "6", "7", "8", "9"}

DigitValue(ch) ==
    CASE ch = "0" -> 0 [] ch = "1" -> 1 [] ch = "2" -> 2 [] ch = "3" -> 3
      [] ch = "4" -> 4 [] ch = "5" -> 5 [] ch = "6" -> 6 [] ch = "7" -> 7
      [] ch = "8" -> 8 [] ch = "9" -> 9

(***************************************************************************)
(* Machine integers.  A word is a two's complement integer written as its  *)
(* 16-bit limbs, the least significant first; an int (and a time.Duration, *)
(* a number of nanoseconds) has Int64 limbs and its arithmetic wraps.      *)
(***************************************************************************)
Base == Pow2(16)
Int64 == 4

\* x * m + c for a small m and c, in the width of x
RECURSIVE TimesPlus(_, _, _)
TimesPlus(x, m, c) ==
    IF x = <<>> THEN <<>>
    ELSE <<(Head(x) * m + c) % Base>> \o TimesPlus(Tail(x), m, (Head(x) * m + c) \div Base)

\* width limbs that are all the same
RECURSIVE Limbs(_, _)
Limbs(limb, width) == IF width <= 0 THEN <<>> ELSE <<limb>> \o Limbs(limb, width - 1)

RECURSIVE Complement(_)
Complement(x) == IF x = <<>> THEN <<>> ELSE <<Base - 1 - Head(x)>> \o Complement(Tail(x))

\* the word of a small natural number n, and of its negative
Word(n, width) == TimesPlus(Limbs(0, width), 1, n)
Negate(x) == TimesPlus(Complement(x), 1, 1)

IsNegative(x) == x[Len(x)] >= Base \div 2

\* the same integer in more limbs, and the low limbs of a word
Extend(x, width) ==
    x \o Limbs(IF IsNegative(x) THEN Base - 1 ELSE 0, width - Len(x))
Truncate(x, width) == SubSeq(x, 1, width)

\* x < y, as signed integers of one width
Less(x, y) ==
    IF IsNegative(x) # IsNegative(y) THEN IsNegative(x)
    ELSE \E i \in 1..Len(x) :
             /\ x[i] < y[i]
             /\ \A j \in (i + 1)..Len(x) : x[j] = y[j]

\* x * 10^k, wrapping in the width of x
RECURSIVE TimesTenTo(_, _)
TimesTenTo(x, k) == IF k = 0 THEN x ELSE TimesTenTo(TimesPlus(x, 10, 0), k - 1)

\* the low i limbs of a non-negative x divided by a small m, when the limbs
\* above them have left the remainder rem
RECURSIVE DivLimbs(_, _, _, _)
DivLimbs(x, m, i, rem) ==
    IF i = 0 THEN <<>>
    ELSE DivLimbs(x, m, i - 1, (rem * Base + x[i]) % m) \o <<(rem * Base + x[i]) \div m>>
DivBy(x, m) == DivLimbs(x, m, Len(x), 0)

RECURSIVE DivByTenTo(_, _)
DivByTenTo(x, k) == IF k = 0 THEN x ELSE DivByTenTo(DivBy(x, 10), k - 1)

\* the value of a word as a number of the model, and the least such value that
\* is told from the ones below it
Far == Pow2(30)
Number(x) ==
    LET m == IF IsNegative(x) THEN Negate(x) ELSE x
        small == ~IsNegative(m) /\ m[2] < Base \div 4 /\ \A i \in 3..Len(m) : m[i] = 0
        n == IF small THEN m[2] * Base + m[1] ELSE Far
    IN  IF IsNegative(x) THEN 0 - n ELSE n

\* time.Second, a power of ten of nanoseconds
NanosecondDigits == 9

\* the whole seconds of a duration (towards zero); the retrying caller's clock
\* has whole seconds, and time.Sleep returns at once on every negative duration
Seconds(duration) ==
    IF IsNegative(duration)
    THEN 0 - Number(DivByTenTo(Negate(duration), NanosecondDigits))
    ELSE Number(DivByTenTo(duration, NanosecondDigits))

\* 5*time.Minute
FiveMinutes == TimesTenTo(Word(MaxRetryAfter, Int64), NanosecondDigits)

\* the sum of the digits' values in a word wide enough to hold it
RECURSIVE DigitsValue(_, _)
DigitsValue(chars, acc) ==
    IF chars = <<>> THEN acc
    ELSE DigitsValue(Tail(chars), TimesPlus(acc, 10, DigitValue(Head(chars))))

RECURSIVE StripZeros(_)
StripZeros(chars) ==
    IF Len(chars) > 1 /\ Head(chars) = "0" THEN StripZeros(Tail(chars)) ELSE chars

\* the digits an int has at most, and limbs that hold any number of that length
MaxDigits == 19
Wide == 6

\* a syntax error on anything but digits after an optional sign, a range error
\* on a number that is no int
Atoi(s) ==
    IF s.kind # "text" \/ s.chars = <<>> THEN [n |-> Word(0, Int64), err |-> TRUE]
    ELSE LET signed == Head(s.chars) \in {"-", "+"}
             digits == IF signed THEN Tail(s.chars) ELSE s.chars
         IN  IF digits = <<>> \/ \E i \in 1..Len(digits) : digits[i] \notin DigitChars
             THEN [n |-> Word(0, Int64), err |-> TRUE]
             ELSE IF Len(StripZeros(digits)) > MaxDigits
             THEN [n |-> Word(0, Int64), err |-> TRUE]
             ELSE LET size == DigitsValue(StripZeros(digits), Word(0, Wide))
                      exact == IF Head(s.chars) = "-" THEN Negate(size) ELSE size
                  IN  IF Extend(Truncate(exact, Int64), Wide) # exact
                      THEN [n |-> Word(0, Int64), err |-> TRUE]
                      ELSE [n |-> Truncate(exact, Int64), err |-> FALSE]

\* variant of DateAccepted: a date that is now is accepted
DateAccepted_NotPast(layout, value) ==
    value.kind = "date" /\ value.layout = layout
        /\ value.until >= 0 /\ value.until <= MaxRetryAfter

\* time.Parse(layout, value) succeeds on a date written in that layout;
\* until is time.Until of the parsed time
TimeParse(layout, value) ==
    IF value.kind = "date" /\ value.layout = layout
    THEN [until |-> value.until, err |-> FALSE]
    ELSE [until |-> 0, err |-> TRUE]

\* the fallback layouts, in the order of the formats slice
formats == <<"RFC822", "RFC822Z", "RFC850", "RFC3339">>

\* duration > 0 && duration <= 5*time.Minute
DateAccepted(layout, value) ==
    LET p == TimeParse(layout, value)
    IN  ~p.err /\ p.until > 0 /\ p.until <= MaxRetryAfter

\* what parseRetryAfter returns: the duration, d its whole seconds
Parsed(duration, err) == [d |-> Seconds(duration), duration |-> duration, err |-> err]

\* no call of parseRetryAfter yet
NoParse == [pc |-> "none", retryAfter |-> EmptyString, ret |-> Parsed(Word(0, Int64), TRUE)]

\* time.Until of an accepted date, a number of seconds up to 5 minutes
Until(seconds) == TimesTenTo(Word(seconds, Int64), NanosecondDigits)

\* variant of parseRetryAfter: integer seconds are not capped at 5 minutes
parseRetryAfter_NoCap(retryAfter) ==
    LET a == Atoi(retryAfter)
    IN  IF ~a.err THEN Parsed(TimesTenTo(a.n, NanosecondDigits), FALSE)
        ELSE IF \E l \in {"RFC1123", "RFC822", "RFC822Z", "RFC850", "RFC3339"} :
                    DateAccepted(l, retryAfter)
        THEN Parsed(Until(retryAfter.until), FALSE)
        ELSE Parsed(Word(0, Int64), TRUE)

parseRetryAfter(retryAfter) ==
    LET a == Atoi(retryAfter)
    IN  IF ~a.err
        THEN LET duration == TimesTenTo(a.n, NanosecondDigits)
             IN  IF Less(FiveMinutes, duration) THEN Parsed(FiveMinutes, FALSE)
                 ELSE Parsed(duration, FALSE)
        ELSE IF DateAccepted("RFC1123", retryAfter)
        THEN Parsed(Until(TimeParse("RFC1123", retryAfter).until), FALSE)
        ELSE IF \E i \in 1..Len(formats) : DateAccepted(formats[i], retryAfter)
        THEN LET i == CHOOSE k \in 1..Len(formats) :
                          /\ DateAccepted(formats[k], retryAfter)
                          /\ \A j \in 1..(k - 1) : ~DateAccepted(formats[j], retryAfter)
             IN  Parsed(Until(TimeParse(formats[i], retryAfter).until), FALSE)
        ELSE Parsed(Word(0, Int64), TRUE)

(***************************************************************************)
(* The rate limiter: the ledger maps a method to the time of its last      *)
(* dispatch attempt, kept as the time elapsed since then; a method that    *)
(* was never dispatched has no entry.                                      *)
(***************************************************************************)
\* variants of checkRateLimit: a 1 second interval; exactly 2 seconds still refused
checkRateLimit_OneSecond(ledger, m) ==
    IF m \in DOMAIN ledger /\ ledger[m] < 1 * Second THEN FALSE ELSE TRUE

checkRateLimit_Inclusive(ledger, m) ==
    IF m \in DOMAIN ledger /\ ledger[m] <= RateLimitInterval * Second THEN FALSE ELSE TRUE

\* exists && time.Since(lastCall) < 2*time.Second
checkRateLimit(ledger, m) ==
    LET exists == m \in DOMAIN ledger
    IN  IF exists /\ ledger[m] < RateLimitInterval * Second THEN FALSE ELSE TRUE

\* variant of updateRateLimit: the ledger is left as it was
updateRateLimit_Forgotten(ledger, m) == ledger

\* variant of updateRateLimit: one time of the last call for all methods
updateRateLimit_Global(ledger, m) == [x \in DOMAIN ledger \cup {m} |-> 0]

\* s.rateLimiter[method] = time.Now(): nothing has elapsed since now
updateRateLimit(ledger, m) ==
    [x \in DOMAIN ledger \cup {m} |-> IF x = m THEN 0 ELSE ledger[x]]

(***************************************************************************)
(* The transport.  The upstream's reply to one POST: the exchange fails    *)
(* (net = "fail") or yields an HTTP status, a Retry-After header ("" when  *)
(* absent) and a body that decodes to a JSON-RPC envelope or does not.     *)
(***************************************************************************)
Reply(net, status, header, decodes, result, error) ==
    [net |-> net, status |-> status, retryAfter |-> header,
     decodes |-> decodes, result |-> result, error |-> error]

\* json.NewDecoder(resp.Body).Decode(&rpcResp); rpcResp keeps its zero value on failure
Decode(reply) ==
    IF reply.decodes
    THEN [rpcResp |-> RPCResponse(reply.result, reply.error), err |-> FALSE]
    ELSE [rpcResp |-> RPCResponse(JNull, JNull), err |-> TRUE]

\* variant of makeRPCCall: a Retry-After header that does not parse fails the call
makeRPCCall_ParseFails(reply) ==
    IF reply.net = "fail" THEN [resp |-> NilResponse, err |-> "post failed"]
    ELSE IF reply.status = StatusTooManyRequests
    THEN IF reply.retryAfter # EmptyString /\ parseRetryAfter(reply.retryAfter).err
         THEN [resp |-> NilResponse, err |-> "unable to parse Retry-After header"]
         ELSE LET dec == Decode(reply)
              IN  [resp |-> IF ~dec.err /\ dec.rpcResp.Error.kind = "object"
                                  /\ reply.retryAfter # EmptyString
                            THEN RPCResponse(dec.rpcResp.Result,
                                             SetField(dec.rpcResp.Error, "retryAfter",
                                                      JString(reply.retryAfter)))
                            ELSE dec.rpcResp,
                   err |-> NoError]
    ELSE LET dec == Decode(reply)
         IN  IF dec.err THEN [resp |-> NilResponse, err |-> "decode failed"]
             ELSE [resp |-> dec.rpcResp, err |-> NoError]

\* variant of makeRPCCall: the annotation does not look at the header
makeRPCCall_AnnotatesAlways(reply) ==
    IF reply.net = "fail" THEN [resp |-> NilResponse, err |-> "post failed"]
    ELSE IF reply.status = StatusTooManyRequests
    THEN LET dec == Decode(reply)
         IN  [resp |-> IF ~dec.err /\ dec.rpcResp.Error.kind = "object"
                       THEN RPCResponse(dec.rpcResp.Result,
                                        SetField(dec.rpcResp.Error, "retryAfter",
                                                 JString(reply.retryAfter)))
                       ELSE dec.rpcResp,
              err |-> NoError]
    ELSE LET dec == Decode(reply)
         IN  IF dec.err THEN [resp |-> NilResponse, err |-> "decode failed"]
             ELSE [resp |-> dec.rpcResp, err |-> NoError]

makeRPCCall(reply) ==
    IF reply.net = "fail" THEN [resp |-> NilResponse, err |-> "post failed"]
    ELSE IF reply.status = StatusTooManyRequests
    THEN LET retryAfter == reply.retryAfter
             dec == Decode(reply)
             rpcResp ==
                 IF ~dec.err /\ dec.rpcResp.Error.kind = "object" /\ retryAfter # EmptyString
                 THEN RPCResponse(dec.rpcResp.Result,
                                  SetField(dec.rpcResp.Error, "retryAfter", JString(retryAfter)))
                 ELSE dec.rpcResp
         IN  [resp |-> rpcResp, err |-> NoError]
    ELSE LET dec == Decode(reply)
         IN  IF dec.err THEN [resp |-> NilResponse, err |-> "decode failed"]
             ELSE [resp |-> dec.rpcResp, err |-> NoError]

(***************************************************************************)
(* The decisions of makeRPCCallWithRetry after a dispatch.                 *)
(***************************************************************************)
\* variant of IsThrottled: every error object counts, whatever its code
IsThrottled_AnyCode(resp) == resp.Error # JNull /\ resp.Error.kind = "object"

\* resp.Error is an object whose code is the number 429
IsThrottled(resp) ==
    /\ resp.Error # JNull
    /\ resp.Error.kind = "object"
    /\ "code" \in DOMAIN resp.Error.fields
    /\ resp.Error.fields["code"] = JNumber(429)

\* variant of TransportDelay: the exponent of the 429 path
TransportDelay_NextExponent(attempt) == baseDelay * Pow2(attempt + 1)

\* baseDelay * 2^attempt after a transport failure
TransportDelay(attempt) == baseDelay * Pow2(attempt)

\* variant of ThrottleDelay: the fallback uses the exponent of the transport path
ThrottleDelay_SameExponent(resp, attempt) ==
    LET errorMap == resp.Error.fields
        hinted == "retryAfter" \in DOMAIN errorMap /\ errorMap["retryAfter"].kind = "string"
    IN  IF hinted /\ ~parseRetryAfter(errorMap["retryAfter"].s).err
        THEN [d |-> parseRetryAfter(errorMap["retryAfter"].s).d, why |-> "hint"]
        ELSE [d |-> baseDelay * Pow2(attempt), why |-> "backoff"]

\* the wait after a 429: the parsed hint, else baseDelay * 2^(attempt+1)
ThrottleDelay(resp, attempt) ==
    LET errorMap == resp.Error.fields
        hasRetryAfter == "retryAfter" \in DOMAIN errorMap
                            /\ errorMap["retryAfter"].kind = "string"
    IN  IF hasRetryAfter
        THEN LET parsed == parseRetryAfter(errorMap["retryAfter"].s)
             IN  IF ~parsed.err THEN [d |-> parsed.d, why |-> "hint"]
                 ELSE [d |-> baseDelay * Pow2(attempt + 1), why |-> "backoff"]
        ELSE [d |-> baseDelay * Pow2(attempt + 1), why |-> "backoff"]

\* variant of AfterDispatch: a 429 on the last attempt is returned as a failure
AfterDispatch_ThrottleFails(out, attempt) ==
    IF out.err # NoError
    THEN IF attempt = maxRetries - 1
         THEN [op |-> "return", resp |-> NilResponse, err |-> out.err]
         ELSE [op |-> "sleep", d |-> TransportDelay(attempt), why |-> "transport"]
    ELSE IF IsThrottled(out.resp)
    THEN IF attempt = maxRetries - 1
         THEN [op |-> "return", resp |-> NilResponse, err |-> "max retries exceeded"]
         ELSE [op |-> "sleep", d |-> ThrottleDelay(out.resp, attempt).d,
               why |-> ThrottleDelay(out.resp, attempt).why]
    ELSE [op |-> "return", resp |-> out.resp, err |-> NoError]

\* what one loop iteration does with the outcome out of makeRPCCall
AfterDispatch(out, attempt) ==
    IF out.err # NoError
    THEN IF attempt = maxRetries - 1
         THEN [op |-> "return", resp |-> NilResponse, err |-> out.err]
         ELSE [op |-> "sleep", d |-> TransportDelay(attempt), why |-> "transport"]
    ELSE IF IsThrottled(out.resp)
    THEN IF attempt = maxRetries - 1
         THEN [op |-> "return", resp |-> out.resp, err |-> NoError]
         ELSE LET td == ThrottleDelay(out.resp, attempt)
              IN  [op |-> "sleep", d |-> td.d, why |-> td.why]
    ELSE [op |-> "return", resp |-> out.resp, err |-> NoError]

(***************************************************************************)
(* The inputs: what the upstream may answer.  Retry-After values are       *)
(* integers (in range, above the 5 minute cap, zero, negative), text that  *)
(* is no number, and dates before, at and after the time of the answer in  *)
(* layouts the parser knows and in one it does not.  Concurrent callers    *)
(* get the answers of FewReplies, a single caller those of AllReplies.     *)
(***************************************************************************)
AllHeaders ==
    { EmptyString, Text(<<"1">>), Text(<<"a", "b">>), Text(<<"0">>), Text(<<"-", "5">>), Text(<<"+", "3">>),
      Text(<<"4", "0", "0">>), Text(<<"1", "0", "0", "0">>), Text(<<"-">>),
      DateString("RFC1123", 3), DateString("RFC1123", 0), DateString("RFC1123", -1),
      DateString("RFC1123", MaxRetryAfter + 1),
      DateString("RFC3339", 2), DateString("RFC850", 0), DateString("ANSIC", 2) }

\* strconv.Itoa, as the upstream writes a number of seconds
DigitOf(v) == CHOOSE ch \in DigitChars : DigitValue(ch) = v

RECURSIVE Decimal(_)
Decimal(n) == IF n < 10 THEN <<DigitOf(n)>> ELSE Decimal(n \div 10) \o <<DigitOf(n % 10)>>

Itoa(n) == Text(IF n < 0 THEN <<"-">> \o Decimal(0 - n) ELSE Decimal(n))

\* the integer headers: every number of seconds up to MaxSeconds either way,
\* and numbers around the least and the greatest second count whose
\* nanoseconds are an int, around the first that wraps to a duration above
\* zero, one that wraps to a second, the ends of the ints and beyond
MaxSeconds == 320

LongHeaders ==
    { Text(<<"9", "2", "2", "3", "3", "7", "2", "0", "3", "6">>),
      Text(<<"9", "2", "2", "3", "3", "7", "2", "0", "3", "7">>),
      Text(<<"1", "8", "4", "4", "6", "7", "4", "4", "0", "7", "3">>),
      Text(<<"1", "8", "4", "4", "6", "7", "4", "4", "0", "7", "4">>),
      Text(<<"3", "6", "0", "2", "8", "7", "9", "7", "0", "1", "8", "9", "6", "3", "9", "6", "9">>),
      Text(<<"9", "2", "2", "3", "3", "7", "2", "0", "3", "6", "8", "5", "4", "7", "7", "5", "8", "0", "7">>),
      Text(<<"9", "2", "2", "3", "3", "7", "2", "0", "3", "6", "8", "5", "4", "7", "7", "5", "8", "0", "8">>),
      Text(<<"-", "9", "2", "2", "3", "3", "7", "2", "0", "3", "6">>),
      Text(<<"-", "9", "2", "2", "3", "3", "7", "2", "0", "3", "7">>),
      Text(<<"-", "9", "2", "2", "3", "3", "7", "2", "0", "3", "6", "8", "5", "4", "7", "7", "5", "8", "0", "8">>),
      Text(<<"-", "9", "2", "2", "3", "3", "7", "2", "0", "3", "6", "8", "5", "4", "7", "7", "5", "8", "0", "9">>),
      Text(<<"0", "0", "0", "0", "0", "0", "0", "0", "0", "0", "0", "0", "0", "0", "0", "0", "0", "0", "0", "1", "2", "0">>),
      Text(<<"9", "9", "9", "9", "9", "9", "9", "9", "9", "9", "9", "9", "9", "9", "9", "9", "9", "9", "9", "9">>) }

IntegerHeaders == {Itoa(n) : n \in (0 - MaxSeconds)..MaxSeconds} \cup LongHeaders

\* the date headers: in every layout the parser tries and in one it does not,
\* a date before now, now, after now, 5 minutes ahead and beyond
Layouts == {"RFC1123", "RFC822", "RFC822Z", "RFC850", "RFC3339", "ANSIC"}
Waits == {0 - 1, 0, 1, MaxRetryAfter - 1, MaxRetryAfter, MaxRetryAfter + 1}
DateHeaders == {DateString(layout, until) : layout \in Layouts, until \in Waits}

ParseHeaders == AllHeaders \cup IntegerHeaders \cup DateHeaders

ThrottleError == JObject([code |-> JNumber(429), message |-> JString(Text(<<"x">>))])
OtherError == JObject([code |-> JNumber(-32602), message |-> JString(Text(<<"x">>))])
HintedError == JObject([code |-> JNumber(429), retryAfter |-> JString(Text(<<"1">>))])
OddHintError == JObject([code |-> JNumber(429), retryAfter |-> JNumber(1)])
TextCodeError == JObject([code |-> JString(Text(<<"4", "2", "9">>))])
PlainError == JString(Text(<<"x">>))
SomeResult == JObject([value |-> JNumber(1)])

Body(decodes, result, error) == [decodes |-> decodes, result |-> result, error |-> error]

FewBodies ==
    { Body(TRUE, SomeResult, JNull), Body(TRUE, JNull, ThrottleError) }

AllBodies ==
    FewBodies \cup
    { Body(FALSE, JNull, JNull), Body(TRUE, JNull, OtherError), Body(TRUE, JNull, HintedError),
      Body(TRUE, JNull, OddHintError), Body(TRUE, JNull, TextCodeError),
      Body(TRUE, JNull, PlainError) }

Replies(headers, bodies) ==
    { Reply("fail", 0, EmptyString, FALSE, JNull, JNull) } \cup
    { Reply("ok", 200, EmptyString, b.decodes, b.result, b.error) : b \in bodies } \cup
    { Reply("ok", StatusTooManyRequests, h, b.decodes, b.result, b.error) :
          h \in headers, b \in bodies }

\* bodies that decode to an envelope with both members, and with neither
OddBodies == { Body(TRUE, SomeResult, ThrottleError), Body(TRUE, JNull, JNull) }

\* the replies with every header on every status
Statuses == {200, StatusTooManyRequests, 503}

TransportReplies ==
    { Reply("fail", 0, EmptyString, FALSE, JNull, JNull) } \cup
    { Reply("ok", status, h, b.decodes, b.result, b.error) :
          status \in Statuses, h \in AllHeaders, b \in AllBodies \cup OddBodies }

FewReplies == Replies({EmptyString}, FewBodies)
AllReplies == Replies(AllHeaders, AllBodies)

(***************************************************************************)
(* State.  rateLimiter is the client's ledger; the rest is per caller of   *)
(* makeRPCCallWithRetry: its position pc, its arguments and locals         *)
(* (method, attempt, the outcome out of makeRPCCall), the time stamp it    *)
(* wrote to the ledger for the dispatch it is about to send, the sleep it  *)
(* is in (its length delay, what remains of it, and why), what it returned *)
(* (ret), and its record: the ledger time stamp of each dispatch it sent   *)
(* and the time it spent sleeping.                                         *)
(***************************************************************************)
VARIABLES rateLimiter, pc, method, attempt, stamp, out, remain, delay, why, ret,
          sent, slept

\* parsing is the last call of parseRetryAfter: its argument and what it
\* returned
VARIABLES parsing

\* exchange is the last call of makeRPCCall taken on its own: the upstream's
\* reply to its POST and what it returned
VARIABLES exchange

\* metrics is a request to /api/metrics: what the handler read from the
\* upstream (the performance samples, the epoch info, the validator count)
\* and what it computed from it
VARIABLES metrics

\* lookup is a call of GetAccountInfo or GetTokenSupply: the replies of the
\* upstream to the POSTs it makes, and what it returned
VARIABLES lookup

\* byMint is a request for the holders of a token: the position of its call of
\* GetTokenAccountsByMint, the limit it passed and what the call returned
VARIABLES byMint

\* performance is a request to /api/performance: its position, its cache key
\* and time range, and the answer
VARIABLES performance

\* the state of the rate limiter and of the callers of makeRPCCallWithRetry,
\* with the parser of their Retry-After hints, the transport and the handlers
retryVars == <<rateLimiter, pc, method, attempt, stamp, out, remain, delay, why, ret,
               sent, slept, parsing, exchange, metrics, lookup, byMint, performance>>

(***************************************************************************)
(* mutex is the client's sync.RWMutex: the goroutine that holds it for     *)
(* writing, those that hold it for reading, and those blocked in Lock(),   *)
(* which keep new readers out.  cache is the client's cache map, an        *)
(* entry's ExpiresAt kept as the time left until then (negative once it is *)
(* past).  user is what each goroutine using the cache is doing: its       *)
(* position, the arguments of its call and what getFromCache returned to   *)
(* it.  stored keeps, per key, the caller and the value of the setCache    *)
(* call that was the last to acquire the lock.                             *)
(***************************************************************************)
VARIABLES mutex, cache, user, stored

cacheVars == <<cache, user, stored>>

(***************************************************************************)
(* lastBlockTime and lastBlockTimeCheck are the client's published block   *)
(* time, a fraction of a second, and the time it was computed, kept as the *)
(* time elapsed since then (the zero time is as long ago as can be told).  *)
(* reader is what each caller of GetCachedBlockTime is doing: its          *)
(* position (after the return, the line it returned from), the value it    *)
(* returned and the value that was published when it entered the call.     *)
(* run is what each goroutine running                                      *)
(* updateBlockTimeInBackground is doing: its position, its locals          *)
(* currentSlot, laterSlot and err, what is left of its sleep, and the      *)
(* block time it computed.  accepted is the block time of the run that was *)
(* the last to complete its write.                                         *)
(***************************************************************************)
VARIABLES lastBlockTime, lastBlockTimeCheck, reader, run, accepted

blockVars == <<lastBlockTime, lastBlockTimeCheck, reader, run, accepted>>

(***************************************************************************)
(* at is where each goroutine of the client is in the code: the stack of   *)
(* the source lines it is at, the innermost call first, empty when it runs *)
(* none of the client's functions.                                         *)
(***************************************************************************)
VARIABLES at

vars == <<retryVars, mutex, cacheVars, blockVars, at>>

\* what the retrying caller leaves alone
beyondRetry ==
    <<mutex, cacheVars, blockVars, at, parsing, exchange, metrics, lookup, byMint,
      performance>>

NoOutcome == [resp |-> NilResponse, err |-> "none"]

\* no call of makeRPCCall on its own yet
NoExchange == [pc |-> "none", reply |-> Reply("fail", 0, EmptyString, FALSE, JNull, JNull),
               ret |-> NoOutcome]

\* a float64 that is the fraction n/d, and the comparisons used on block times
Ratio(n, d) == [n |-> n, d |-> d]
AtLeast(x, y) == x.n * y.d >= y.n * x.d
AtMost(x, y) == x.n * y.d <= y.n * x.d
Positive(x) == x.n > 0

\* float64 arithmetic on fractions with a positive denominator, in lowest terms
RECURSIVE GCD(_, _)
GCD(a, b) == IF b = 0 THEN a ELSE GCD(b, a % b)

Reduced(x) ==
    LET g == GCD(IF x.n < 0 THEN 0 - x.n ELSE x.n, x.d)
    IN  IF x.n = 0 THEN Ratio(0, 1) ELSE Ratio(x.n \div g, x.d \div g)

Plus(x, y) == Reduced(Ratio(x.n * y.d + y.n * x.d, x.d * y.d))
Over(x, y) == Reduced(Ratio(x.n * y.d, x.d * y.n))
Whole(n) == Ratio(n, 1)
More(x, y) == x.n * y.d > y.n * x.d

\* v, ok := m[key].(float64) on a decoded JSON object
Float64(m, key) ==
    IF key \in DOMAIN m /\ m[key].kind = "number"
    THEN [v |-> m[key].n, ok |-> TRUE]
    ELSE [v |-> 0, ok |-> FALSE]

\* totalTPS after the loop of calculateTPS over the samples
RECURSIVE TotalTPS(_)
TotalTPS(samples) ==
    IF samples = <<>> THEN Ratio(0, 1)
    ELSE LET sample == Head(samples)
             numTransactions == Float64(sample, "numTransactions")
             samplePeriodSecs == Float64(sample, "samplePeriodSecs")
         IN  IF numTransactions.ok /\ samplePeriodSecs.ok /\ samplePeriodSecs.v > 0
             THEN Plus(Over(Whole(numTransactions.v), Whole(samplePeriodSecs.v)),
                       TotalTPS(Tail(samples)))
             ELSE TotalTPS(Tail(samples))

calculateTPS(samples) ==
    IF Len(samples) = 0 THEN Ratio(0, 1)
    ELSE Over(TotalTPS(samples), Whole(Len(samples)))

\* variant of EpochProgress: only a zero slotsInEpoch is guarded
EpochProgress_NotZero(epochInfo) ==
    LET slotIndex == Float64(epochInfo, "slotIndex").v
        slotsInEpoch == Float64(epochInfo, "slotsInEpoch").v
    IN  IF slotsInEpoch > 0
        THEN Reduced(Ratio(slotIndex * 100, slotsInEpoch))
        ELSE IF slotsInEpoch < 0
        THEN Reduced(Ratio(0 - slotIndex * 100, 0 - slotsInEpoch))
        ELSE Ratio(0, 1)

\* var epochProgress float64; if slotsInEpoch > 0 { (slotIndex / slotsInEpoch) * 100 }
EpochProgress(epochInfo) ==
    LET slotIndex == Float64(epochInfo, "slotIndex").v
        slotsInEpoch == Float64(epochInfo, "slotsInEpoch").v
    IN  IF slotsInEpoch > 0
        THEN Reduced(Ratio(slotIndex * 100, slotsInEpoch))
        ELSE Ratio(0, 1)

\* variant of NetworkHealth: the thresholds count as reached
NetworkHealth_Reached(tps, validatorCount) ==
    IF ~More(Whole(100), tps) /\ validatorCount >= 1000 THEN "Healthy"
    ELSE IF ~More(Whole(50), tps) /\ validatorCount >= 500 THEN "Good"
    ELSE IF ~More(Whole(10), tps) THEN "Fair"
    ELSE "Poor"

\* the if .. else if chain that sets networkHealth
NetworkHealth(tps, validatorCount) ==
    IF More(tps, Whole(100)) /\ validatorCount > 1000 THEN "Healthy"
    ELSE IF More(tps, Whole(50)) /\ validatorCount > 500 THEN "Good"
    ELSE IF More(tps, Whole(10)) THEN "Fair"
    ELSE "Poor"

\* no request to /api/metrics yet
NoMetrics == [pc |-> "none", samples |-> <<>>, epochInfo |-> [epoch |-> JNumber(0)],
              validatorCount |-> 0, tps |-> Ratio(0, 1), epochProgress |-> Ratio(0, 1),
              networkHealth |-> ""]

\* m[key] of a decoded JSON value that is an object; nil when it has no such member
Member(v, key) ==
    IF v.kind = "object" /\ key \in DOMAIN v.fields THEN v.fields[key] ELSE JNull

\* the digits a uint64 has at most
MaxUintDigits == 20

\* strconv.ParseUint(s, 10, 64): a syntax error on anything but digits, a range
\* error on a number that is no uint64
ParseUint(s) ==
    IF s.chars = <<>> \/ \E i \in 1..Len(s.chars) : s.chars[i] \notin DigitChars
    THEN [n |-> Word(0, Int64), err |-> TRUE]
    ELSE IF Len(StripZeros(s.chars)) > MaxUintDigits
    THEN [n |-> Word(0, Int64), err |-> TRUE]
    ELSE LET size == DigitsValue(StripZeros(s.chars), Word(0, Wide))
         IN  IF \E i \in (Int64 + 1)..Wide : size[i] # 0
             THEN [n |-> Word(0, Int64), err |-> TRUE]
             ELSE [n |-> Truncate(size, Int64), err |-> FALSE]

\* a float64 that is value / 10^decimals, value a whole number in Wide limbs
Scaled(value, decimals) == [value |-> value, decimals |-> decimals]

\* the binary digits of a limb, and the ones a float64 keeps of a number
RECURSIVE Bits(_)
Bits(n) == IF n = 0 THEN 0 ELSE 1 + Bits(n \div 2)
MantissaBits == 53

\* float64(x) of a uint64 x: the nearest number of MantissaBits binary digits,
\* the even one of two that are as near
Float64Of(x) ==
    LET drop == (Int64 - 1) * 16 + Bits(x[Int64]) - MantissaBits
        unit == Pow2(drop)
        low == x[1] % unit
        odd == (x[1] \div unit) % 2 = 1
        kept == <<x[1] - low>> \o Tail(x) \o Limbs(0, Wide - Int64)
    IN  IF x[Int64] = 0 \/ drop <= 0 THEN x \o Limbs(0, Wide - Int64)
        ELSE IF low * 2 > unit \/ (low * 2 = unit /\ odd) THEN TimesPlus(kept, 1, unit)
        ELSE kept

\* the decimal places of a lamport: 1e9
LamportDigits == 9

\* GetBalance: value / 1e9, or an error
GetBalance(reply) ==
    LET call == makeRPCCall(reply)
        resp == call.resp
        value == Member(resp.Result, "value")
        zero == Scaled(Word(0, Wide), 0)
    IN  IF call.err # NoError THEN [info |-> [Balance |-> zero], err |-> call.err, posts |-> 1]
        ELSE IF resp.Error.kind # "null"
        THEN [info |-> [Balance |-> zero], err |-> "RPC error", posts |-> 1]
        ELSE IF resp.Result.kind # "object"
        THEN [info |-> [Balance |-> zero], err |-> "invalid balance response", posts |-> 1]
        ELSE IF value.kind # "number"
        THEN [info |-> [Balance |-> zero], err |-> "invalid balance value", posts |-> 1]
        ELSE [info |-> [Balance |-> Scaled(Word(value.n, Wide), LamportDigits)],
              err |-> NoError, posts |-> 1]

\* &AccountInfo{Address: address, IsValid: false}, and the full record
InvalidAccount == [isNil |-> FALSE, IsValid |-> FALSE, Lamports |-> 0, Owner |-> EmptyString,
                   Balance |-> Scaled(Word(0, Wide), 0)]
NilAccount == [isNil |-> TRUE, IsValid |-> FALSE, Lamports |-> 0, Owner |-> EmptyString,
               Balance |-> Scaled(Word(0, Wide), 0)]

\* posts counts the calls of makeRPCCall
GetAccountInfo(reply) ==
    LET call == makeRPCCall(reply)
        resp == call.resp
        value == Member(resp.Result, "value")
        lamports == Member(value, "lamports")
        owner == Member(value, "owner")
    IN  IF call.err # NoError THEN [info |-> NilAccount, err |-> call.err, posts |-> 1]
        ELSE IF resp.Error.kind # "null"
        THEN [info |-> InvalidAccount, err |-> NoError, posts |-> 1]
        ELSE IF resp.Result.kind = "null"
        THEN [info |-> InvalidAccount, err |-> NoError, posts |-> 1]
        ELSE IF resp.Result.kind # "object"
        THEN [info |-> InvalidAccount, err |-> NoError, posts |-> 1]
        ELSE IF value.kind # "object"
        THEN [info |-> InvalidAccount, err |-> NoError, posts |-> 1]
        ELSE [info |-> [isNil |-> FALSE, IsValid |-> TRUE,
                        Lamports |-> IF lamports.kind = "number" THEN lamports.n ELSE 0,
                        Balance |-> Scaled(Word(IF lamports.kind = "number"
                                                THEN lamports.n ELSE 0, Wide),
                                           LamportDigits),
                        Owner |-> IF owner.kind = "string" THEN owner.s ELSE EmptyString],
              err |-> NoError, posts |-> 1]

\* &TokenInfo{MintAddress: mintAddress, IsValid: false}
InvalidToken == [isNil |-> FALSE, IsValid |-> FALSE, Supply |-> Word(0, Int64), Decimals |-> 0,
                 ActualSupply |-> Scaled(Word(0, Wide), 0),
                 IsInitialized |-> FALSE]
NilToken == [isNil |-> TRUE, IsValid |-> FALSE, Supply |-> Word(0, Int64), Decimals |-> 0,
             ActualSupply |-> Scaled(Word(0, Wide), 0),
             IsInitialized |-> FALSE]

\* reply answers the getTokenSupply POST and mintReply the getAccountInfo POST
\* that follows it; ActualSupply is Supply with the point moved by Decimals
GetTokenSupply(reply, mintReply) ==
    LET call == makeRPCCall(reply)
        resp == call.resp
        value == Member(resp.Result, "value")
        amount == IF Member(value, "amount").kind = "string"
                  THEN Member(value, "amount").s ELSE EmptyString
        decimals == IF Member(value, "decimals").kind = "number"
                    THEN Member(value, "decimals").n ELSE 0
        parsed == ParseUint(amount)
        supply == IF parsed.err THEN Word(0, Int64) ELSE parsed.n
        mintAccountInfo == GetAccountInfo(mintReply)
    IN  IF call.err # NoError THEN [info |-> NilToken, err |-> call.err, posts |-> 1]
        ELSE IF resp.Error.kind # "null"
        THEN [info |-> InvalidToken, err |-> NoError, posts |-> 1]
        ELSE IF resp.Result.kind # "object"
        THEN [info |-> InvalidToken, err |-> NoError, posts |-> 1]
        ELSE IF value.kind # "object"
        THEN [info |-> InvalidToken, err |-> NoError, posts |-> 1]
        ELSE [info |-> [isNil |-> FALSE, IsValid |-> TRUE, Supply |-> supply,
                        ActualSupply |-> Scaled(Float64Of(supply), decimals),
                        Decimals |-> decimals,
                        IsInitialized |-> mintAccountInfo.err = NoError
                                              /\ mintAccountInfo.info.IsValid],
              err |-> NoError, posts |-> 1 + mintAccountInfo.posts]

\* no account or token lookup yet
NoLookup == [pc |-> "none", fn |-> "none", reply |-> Reply("fail", 0, EmptyString, FALSE, JNull, JNull),
             mintReply |-> Reply("fail", 0, EmptyString, FALSE, JNull, JNull),
             ret |-> [info |-> NilAccount, err |-> "none", posts |-> 0]]

\* a decoded JSON array
JArray(items) == [kind |-> "array", items |-> items]

\* []map[string]interface{}{}, and a slice that was declared and never appended to
EmptyList == [isNil |-> FALSE, items |-> <<>>]
ListOf(items) == [isNil |-> items = <<>>, items |-> items]

\* the holder built from one account of the upstream's answer
Holder(accountMap) ==
    [address |-> Member(accountMap, "address"),
     balance |-> [address |-> Member(accountMap, "address"),
                  amount |-> Member(accountMap, "amount"),
                  decimals |-> Member(accountMap, "decimals"),
                  uiAmount |-> Member(accountMap, "uiAmount")]]

\* for i, account := range value: stop at i >= limit, skip what is no object
\* (i counts from 1 here)
RECURSIVE TokenHolders(_, _, _)
TokenHolders(value, i, limit) ==
    IF i > Len(value) \/ i - 1 >= limit THEN <<>>
    ELSE (IF value[i].kind = "object" THEN <<Holder(value[i])>> ELSE <<>>)
             \o TokenHolders(value, i + 1, limit)

\* variant of AfterRetry: the error of the retrying call is returned
AfterRetry_Propagates(o, limit) ==
    IF o.err # NoError THEN [holders |-> EmptyList, err |-> o.err, store |-> FALSE]
    ELSE [holders |-> EmptyList, err |-> NoError, store |-> FALSE]

\* variant of AfterRetry: whatever is returned is stored
AfterRetry_StoresAll(o, limit) ==
    LET resp == o.resp
        value == Member(resp.Result, "value")
    IN  IF o.err # NoError \/ resp.Error.kind # "null" \/ resp.Result.kind # "object"
               \/ value.kind # "array"
        THEN [holders |-> EmptyList, err |-> NoError, store |-> TRUE]
        ELSE [holders |-> ListOf(TokenHolders(value.items, 1, limit)), err |-> NoError,
              store |-> TRUE]

\* GetTokenAccountsByMint from the return of makeRPCCallWithRetry, o, on:
\* what it returns and whether it stores the holders in the cache
AfterRetry(o, limit) ==
    LET resp == o.resp
        value == Member(resp.Result, "value")
    IN  IF o.err # NoError THEN [holders |-> EmptyList, err |-> NoError, store |-> FALSE]
        ELSE IF resp.Error.kind # "null"
        THEN [holders |-> EmptyList, err |-> NoError, store |-> FALSE]
        ELSE IF resp.Result.kind # "object"
        THEN [holders |-> EmptyList, err |-> NoError, store |-> FALSE]
        ELSE IF value.kind # "array"
        THEN [holders |-> EmptyList, err |-> NoError, store |-> FALSE]
        ELSE [holders |-> ListOf(TokenHolders(value.items, 1, limit)), err |-> NoError,
              store |-> TRUE]

\* no request for the holders of a token yet
NoByMint == [pc |-> "none", limit |-> 0, from |-> "none",
             ret |-> [holders |-> EmptyList, err |-> "none"]]

\* GetPerformanceSamples: the objects of the result array, or an error
RECURSIVE SamplesOf(_)
SamplesOf(items) ==
    IF items = <<>> THEN <<>>
    ELSE (IF Head(items).kind = "object" THEN <<Head(items).fields>> ELSE <<>>)
             \o SamplesOf(Tail(items))

GetPerformanceSamples(reply) ==
    LET call == makeRPCCall(reply)
    IN  IF call.err # NoError THEN [samples |-> ListOf(<<>>), err |-> call.err]
        ELSE IF call.resp.Result.kind # "array"
        THEN [samples |-> ListOf(<<>>), err |-> "invalid performance samples response"]
        ELSE [samples |-> ListOf(SamplesOf(call.resp.Result.items)), err |-> NoError]

\* limit of /api/performance: the limit parameter when it is given (50 when
\* it is no number), else by the time range; 360 at most
PerformanceLimit(timeRange, limitStr) ==
    LET given == IF Atoi(limitStr).err THEN 50 ELSE Number(Atoi(limitStr).n)
        byRange == CASE timeRange = "5m" -> 5
                     [] timeRange = "20m" -> 20
                     [] timeRange = "1h" -> 60
                     [] timeRange = "6h" -> 360
                     [] OTHER -> 20
        limit == IF limitStr # EmptyString THEN given ELSE byRange
    IN  IF limit > 360 THEN 360 ELSE limit

\* fmt.Sprintf("performance_%s_%d", timeRange, limit), written out for the
\* time ranges and limits of the requests below
PerformanceKey(timeRange, limit) ==
    CASE timeRange = "5m" /\ limit = 5 -> "performance_5m_5"
      [] timeRange = "20m" /\ limit = 20 -> "performance_20m_20"
      [] timeRange = "20m" /\ limit = 50 -> "performance_20m_50"

\* cacheDuration by the time range, in units of 15 seconds
CacheDuration(timeRange) ==
    CASE timeRange = "5m" -> 1
      [] timeRange = "20m" -> 2
      [] timeRange = "1h" -> 4
      [] timeRange = "6h" -> 8
      [] OTHER -> 2

\* no request to /api/performance yet
NoPerformance == [pc |-> "none", timeRange |-> "", limit |-> 0, status |-> 0,
                  samples |-> ListOf(<<>>), cached |-> FALSE, posts |-> 0]

\* 30*time.Second in GetCachedBlockTime, 3*time.Second and the band in
\* updateBlockTimeInBackground
FreshWindow == 30
SampleInterval == 3
MinBlockTime == Ratio(1, 10)
MaxBlockTime == Ratio(2, 1)

\* the goroutines that can run updateBlockTimeInBackground at one time
Runs == {1, 2}
NoRun == [pc |-> "free", currentSlot |-> 0, laterSlot |-> 0, err |-> FALSE, wake |-> 0,
          blockTime |-> Ratio(0, 1)]
Started == [NoRun EXCEPT !.pc = "GetSlot"]
NoReader == [pc |-> "idle", ret |-> Ratio(0, 1), atCall |-> Ratio(0, 1)]

\* the goroutines whose way through the code is followed: those of the HTTP
\* handlers, and one started by a go statement
Handlers == {1, 2}
Background == {3}
Goroutines == Handlers \cup Background

\* no goroutine, and a goroutine that is in no call
Nobody == <<"nobody", 0>>
Idle == [pc |-> "idle", key |-> "none", data |-> "nil", ttl |-> 0,
         got |-> [data |-> "nil", found |-> FALSE]]

Init ==
    /\ rateLimiter = [m \in {} |-> 0]
    /\ pc = [c \in Callers |-> "idle"]
    /\ method = [c \in Callers |-> "none"]
    /\ attempt = [c \in Callers |-> 0]
    /\ stamp = [c \in Callers |-> 0]
    /\ out = [c \in Callers |-> NoOutcome]
    /\ remain = [c \in Callers |-> 0]
    /\ delay = [c \in Callers |-> 0]
    /\ why = [c \in Callers |-> "none"]
    /\ ret = [c \in Callers |-> NoOutcome]
    /\ sent = [c \in Callers |-> <<>>]
    /\ slept = [c \in Callers |-> 0]
    /\ mutex = [writer |-> Nobody, readers |-> {}, pending |-> {}]
    /\ cache = [k \in {} |-> 0]
    /\ user = [g \in Callers |-> Idle]
    /\ stored = [k \in {} |-> 0]
    /\ lastBlockTime = Ratio(2, 5)
    /\ lastBlockTimeCheck = FreshWindow
    /\ reader = [r \in Callers |-> NoReader]
    /\ run = [s \in Runs |-> IF s = 1 THEN Started ELSE NoRun]
    /\ accepted = Ratio(2, 5)
    /\ at = [g \in Goroutines |-> <<>>]
    /\ parsing = NoParse
    /\ exchange = NoExchange
    /\ metrics = NoMetrics
    /\ lookup = NoLookup
    /\ byMint = NoByMint
    /\ performance = NoPerformance

\* a caller enters makeRPCCallWithRetry(m, params): attempt := 0
Call(c, m) ==
    /\ pc[c] = "idle"
    /\ pc' = [pc EXCEPT ![c] = "check"]
    /\ method' = [method EXCEPT ![c] = m]
    /\ attempt' = [attempt EXCEPT ![c] = 0]
    /\ UNCHANGED <<rateLimiter, stamp, out, remain, delay, why, ret, sent, slept>>
    /\ UNCHANGED beyondRetry

\* time.Sleep(d): the caller resumes once d has passed, at once when d <= 0
Sleep(c, d, reason) ==
    /\ pc' = [pc EXCEPT ![c] = "sleep"]
    /\ remain' = [remain EXCEPT ![c] = Max(d, 0)]
    /\ delay' = [delay EXCEPT ![c] = d]
    /\ why' = [why EXCEPT ![c] = reason]
    /\ slept' = [slept EXCEPT ![c] = @ + Max(d, 0)]

\* return resp, err
Return(c, resp, err) ==
    /\ pc' = [pc EXCEPT ![c] = "done"]
    /\ ret' = [ret EXCEPT ![c] = [resp |-> resp, err |-> err]]

\* if !s.checkRateLimit(method) { time.Sleep(2 * time.Second); continue }
CheckRateLimit(c) ==
    /\ pc[c] = "check"
    /\ IF checkRateLimit(rateLimiter, method[c])
       THEN /\ pc' = [pc EXCEPT ![c] = "update"]
            /\ UNCHANGED <<remain, delay, why, slept>>
       ELSE Sleep(c, RateLimitCooldown * Second, "ratelimit")
    /\ UNCHANGED <<rateLimiter, method, attempt, stamp, out, ret, sent>>
    /\ UNCHANGED beyondRetry

\* s.updateRateLimit(method)
UpdateRateLimit(c) ==
    /\ pc[c] = "update"
    /\ rateLimiter' = updateRateLimit(rateLimiter, method[c])
    /\ stamp' = [stamp EXCEPT ![c] = 0]
    /\ pc' = [pc EXCEPT ![c] = "call"]
    /\ UNCHANGED <<method, attempt, out, remain, delay, why, ret, sent, slept>>
    /\ UNCHANGED beyondRetry

\* resp, err := s.makeRPCCall(method, params) and the rest of the iteration
Dispatch(c, reply) ==
    /\ pc[c] = "call"
    /\ LET o == makeRPCCall(reply)
           next == AfterDispatch(o, attempt[c])
       IN  /\ out' = [out EXCEPT ![c] = o]
           /\ IF next.op = "sleep"
              THEN Sleep(c, next.d, next.why) /\ UNCHANGED ret
              ELSE Return(c, next.resp, next.err) /\ UNCHANGED <<remain, delay, why, slept>>
    /\ sent' = [sent EXCEPT ![c] = Append(@, stamp[c])]
    /\ stamp' = [stamp EXCEPT ![c] = 0]
    /\ UNCHANGED <<rateLimiter, method, attempt>>
    /\ UNCHANGED beyondRetry

\* variant of Continue: the loop goes on without counting the attempt
Continue_NoCount(c) ==
    /\ pc[c] = "sleep"
    /\ remain[c] = 0
    /\ pc' = [pc EXCEPT ![c] = "check"]
    /\ out' = [out EXCEPT ![c] = NoOutcome]
    /\ delay' = [delay EXCEPT ![c] = 0]
    /\ why' = [why EXCEPT ![c] = "none"]
    /\ UNCHANGED <<rateLimiter, method, attempt, stamp, remain, ret, sent, slept>>
    /\ UNCHANGED beyondRetry

\* the sleep is over; continue: attempt++, and the loop ends at attempt = maxRetries
Continue(c) ==
    /\ pc[c] = "sleep"
    /\ remain[c] = 0
    /\ attempt' = [attempt EXCEPT ![c] = @ + 1]
    /\ IF attempt[c] + 1 < maxRetries
       THEN pc' = [pc EXCEPT ![c] = "check"] /\ UNCHANGED ret
       ELSE Return(c, NilResponse, "max retries exceeded")
    /\ out' = [out EXCEPT ![c] = NoOutcome]
    /\ delay' = [delay EXCEPT ![c] = 0]
    /\ why' = [why EXCEPT ![c] = "none"]
    /\ UNCHANGED <<rateLimiter, method, stamp, remain, sent, slept>>
    /\ UNCHANGED beyondRetry

\* d seconds pass: every recorded time is d further back, every sleep d shorter
Pass(d) ==
    /\ rateLimiter' = [m \in DOMAIN rateLimiter |-> Min(rateLimiter[m] + d, Horizon)]
    /\ stamp' = [c \in Callers |-> IF pc[c] = "call" THEN Min(stamp[c] + d, Horizon) ELSE 0]
    /\ sent' = [c \in Callers |-> [i \in 1..Len(sent[c]) |-> Min(sent[c][i] + d, Horizon)]]
    /\ remain' = [c \in Callers |-> Max(remain[c] - d, 0)]
    /\ UNCHANGED <<pc, method, attempt, out, delay, why, ret, slept>>
    /\ UNCHANGED beyondRetry

\* time matters while a call is under way
Running == \E c \in Callers : pc[c] \notin {"idle", "done"}

\* a second passes
Tick == Running /\ Pass(1)

\* time passes until the next sleeper is due
Sleepers == {c \in Callers : pc[c] = "sleep" /\ remain[c] > 0}

Elapse ==
    /\ Sleepers # {}
    /\ \E c \in Sleepers :
          /\ \A d \in Sleepers : remain[c] <= remain[d]
          /\ Pass(remain[c])

\* concurrent callers on one client
Next ==
    \/ \E c \in Callers, m \in Methods : Call(c, m)
    \/ \E c \in Callers : CheckRateLimit(c)
    \/ \E c \in Callers : UpdateRateLimit(c)
    \/ \E c \in Callers : \E reply \in FewReplies : Dispatch(c, reply)
    \/ \E c \in Callers : Continue(c)
    \/ Tick
    \/ Elapse

Spec == Init /\ [][Next]_vars

\* concurrent callers of the one method the client passes to makeRPCCallWithRetry
NextShared ==
    \/ \E c \in Callers : Call(c, "getTokenLargestAccounts")
    \/ \E c \in Callers : CheckRateLimit(c)
    \/ \E c \in Callers : UpdateRateLimit(c)
    \/ \E c \in Callers : \E reply \in FewReplies : Dispatch(c, reply)
    \/ \E c \in Callers : Continue(c)
    \/ Tick
    \/ Elapse

SpecShared == Init /\ [][NextShared]_vars

\* one caller, every upstream answer
NextSolo ==
    \/ \E m \in Methods : Call(1, m)
    \/ CheckRateLimit(1)
    \/ UpdateRateLimit(1)
    \/ \E reply \in AllReplies : Dispatch(1, reply)
    \/ Continue(1)
    \/ Tick
    \/ Elapse

SpecSolo == Init /\ [][NextSolo]_vars

\* the exchange fails: the POST returns an error, or the answer is the error
\* page of a gateway, which does not decode
DownReplies ==
    { Reply("fail", 0, EmptyString, FALSE, JNull, JNull),
      Reply("ok", 200, EmptyString, FALSE, JNull, JNull),
      Reply("ok", 503, EmptyString, FALSE, JNull, JNull) }

\* one caller and an upstream that is down: every dispatch fails at the
\* transport level before a second has passed
NextDown ==
    \/ \E m \in Methods : Call(1, m)
    \/ CheckRateLimit(1)
    \/ UpdateRateLimit(1)
    \/ /\ stamp[1] = 0
       /\ \E reply \in DownReplies : Dispatch(1, reply)
    \/ Continue(1)
    \/ Tick
    \/ Elapse

SpecDown == Init /\ [][NextDown]_vars

\* the upstream answers with a JSON-RPC 429 error: without a hint, with a
\* retryAfter member of the body, or on HTTP 429 with a Retry-After header
ThrottledReplies ==
    { Reply("ok", 200, EmptyString, TRUE, JNull, ThrottleError),
      Reply("ok", 200, EmptyString, TRUE, JNull, HintedError) } \cup
    { Reply("ok", StatusTooManyRequests, h, TRUE, JNull, ThrottleError) : h \in AllHeaders }

\* one caller and an upstream that throttles every dispatch
NextThrottled ==
    \/ \E m \in Methods : Call(1, m)
    \/ CheckRateLimit(1)
    \/ UpdateRateLimit(1)
    \/ /\ pc[1] = "call"
       /\ \E reply \in ThrottledReplies : Dispatch(1, reply)
    \/ Continue(1)
    \/ Tick
    \/ Elapse

SpecThrottled == Init /\ [][NextThrottled]_vars

\* every caller keeps running, every Transport call returns, and time passes
Fairness ==
    /\ \A c \in Callers : WF_vars(CheckRateLimit(c))
    /\ \A c \in Callers : WF_vars(UpdateRateLimit(c))
    /\ \A c \in Callers : WF_vars(\E reply \in FewReplies : Dispatch(c, reply))
    /\ \A c \in Callers : WF_vars(Continue(c))
    /\ WF_vars(Elapse)

FairSpec == SpecShared /\ Fairness

(***************************************************************************)
(* The lock.  sync.RWMutex: Lock() first announces the writer, which keeps *)
(* new readers out, and returns once no reader and no writer holds the     *)
(* lock; RLock() returns once no writer holds the lock or waits for it.    *)
(***************************************************************************)
CanRLock == mutex.writer = Nobody /\ mutex.pending = {}
RLock(g) == [mutex EXCEPT !.readers = @ \cup {g}]
RUnlock(g) == [mutex EXCEPT !.readers = @ \ {g}]
LockCalled(g) == [mutex EXCEPT !.pending = @ \cup {g}]
CanLock(g) == g \in mutex.pending /\ mutex.writer = Nobody /\ mutex.readers = {}
Lock(g) == [mutex EXCEPT !.writer = g, !.pending = @ \ {g}]
Unlock(g) == [mutex EXCEPT !.writer = Nobody]

(***************************************************************************)
(* The cache.  Keys are the cache keys the client builds; the cached       *)
(* values are opaque; a ttl is a whole number of seconds, standing for the *)
(* cache durations the client passes (15 seconds to 5 minutes).            *)
(***************************************************************************)
MaxTTL == 2
TTLs == 1..MaxTTL
Keys == {"token_holders_M_20", "performance_20m_20"}
Values == {"holders", "samples"}

\* type CacheEntry struct { Data; ExpiresAt }, ExpiresAt as the time left until it
CacheEntry(data, left) == [Data |-> data, left |-> left]

\* time.Now().After(entry.ExpiresAt): the expiry is strictly in the past
Expired(entry) == entry.left < 0

\* variant of getFromCache: an entry is gone at the instant of its expiry
getFromCache_Due(entries, key) ==
    LET exists == key \in DOMAIN entries
    IN  IF ~exists \/ entries[key].left <= 0
        THEN [data |-> "nil", found |-> FALSE]
        ELSE [data |-> entries[key].Data, found |-> TRUE]

\* entry, exists := s.cache[key]; if !exists || time.Now().After(entry.ExpiresAt)
getFromCache(entries, key) ==
    LET exists == key \in DOMAIN entries
    IN  IF ~exists \/ Expired(entries[key])
        THEN [data |-> "nil", found |-> FALSE]
        ELSE [data |-> entries[key].Data, found |-> TRUE]

\* variant of setCache: an entry that has not expired is kept
setCache_KeepLive(entries, key, data, duration) ==
    IF key \in DOMAIN entries /\ ~Expired(entries[key]) THEN entries
    ELSE [k \in DOMAIN entries \cup {key} |->
             IF k = key THEN CacheEntry(data, duration) ELSE entries[k]]

\* s.cache[key] = CacheEntry{Data: data, ExpiresAt: time.Now().Add(duration)}
setCache(entries, key, data, duration) ==
    [k \in DOMAIN entries \cup {key} |->
        IF k = key THEN CacheEntry(data, duration) ELSE entries[k]]

\* a goroutine calls setCache(key, data, duration) and reaches s.mutex.Lock()
SetCacheCall(g, key, data, duration) ==
    /\ user[g].pc = "idle"
    /\ user' = [user EXCEPT ![g] = [Idle EXCEPT !.pc = "Lock", !.key = key,
                                                !.data = data, !.ttl = duration]]
    /\ mutex' = LockCalled(<<"user", g>>)
    /\ UNCHANGED <<cache, stored, retryVars, blockVars, at>>

\* s.mutex.Lock() returns
SetCacheLock(g) ==
    /\ user[g].pc = "Lock"
    /\ CanLock(<<"user", g>>)
    /\ mutex' = Lock(<<"user", g>>)
    /\ user' = [user EXCEPT ![g].pc = "write"]
    /\ stored' = [k \in DOMAIN stored \cup {user[g].key} |->
                     IF k = user[g].key THEN [by |-> g, Data |-> user[g].data]
                     ELSE stored[k]]
    /\ UNCHANGED <<cache, retryVars, blockVars, at>>

\* the assignment to s.cache[key]
SetCacheWrite(g) ==
    /\ user[g].pc = "write"
    /\ cache' = setCache(cache, user[g].key, user[g].data, user[g].ttl)
    /\ user' = [user EXCEPT ![g].pc = "Unlock"]
    /\ UNCHANGED <<mutex, stored, retryVars, blockVars, at>>

\* s.mutex.Unlock(), and setCache returns
SetCacheUnlock(g) ==
    /\ user[g].pc = "Unlock"
    /\ mutex' = Unlock(<<"user", g>>)
    /\ user' = [user EXCEPT ![g] = Idle]
    /\ UNCHANGED <<cache, stored, retryVars, blockVars, at>>

\* a goroutine calls getFromCache(key): s.mutex.RLock() returns
GetFromCacheRLock(g, key) ==
    /\ user[g].pc = "idle"
    /\ CanRLock
    /\ mutex' = RLock(<<"user", g>>)
    /\ user' = [user EXCEPT ![g] = [Idle EXCEPT !.pc = "read", !.key = key]]
    /\ UNCHANGED <<cache, stored, retryVars, blockVars, at>>

\* variant of GetFromCacheReturn: a lookup that finds an expired entry deletes it
GetFromCacheReturn_Evict(g) ==
    /\ user[g].pc = "read"
    /\ user' = [user EXCEPT ![g] = [Idle EXCEPT !.key = user[g].key,
                                                !.got = getFromCache(cache, user[g].key)]]
    /\ mutex' = RUnlock(<<"user", g>>)
    /\ cache' = [k \in {x \in DOMAIN cache : x # user[g].key \/ ~Expired(cache[x])} |-> cache[k]]
    /\ UNCHANGED <<stored, retryVars, blockVars, at>>

\* the lookup, the return and the deferred s.mutex.RUnlock()
GetFromCacheReturn(g) ==
    /\ user[g].pc = "read"
    /\ user' = [user EXCEPT ![g] = [Idle EXCEPT !.key = user[g].key,
                                                !.got = getFromCache(cache, user[g].key)]]
    /\ mutex' = RUnlock(<<"user", g>>)
    /\ UNCHANGED <<cache, stored, retryVars, blockVars, at>>

\* a second passes: every expiry is a second nearer, or further back
CacheTick ==
    /\ cache' = [k \in DOMAIN cache |-> CacheEntry(cache[k].Data, Max(cache[k].left - 1, 0 - 1))]
    /\ UNCHANGED <<mutex, user, stored, retryVars, blockVars, at>>

\* goroutines setting and getting cache entries on one client
NextCache ==
    \/ \E g \in Callers, k \in Keys, v \in Values, d \in TTLs : SetCacheCall(g, k, v, d)
    \/ \E g \in Callers : SetCacheLock(g)
    \/ \E g \in Callers : SetCacheWrite(g)
    \/ \E g \in Callers : SetCacheUnlock(g)
    \/ \E g \in Callers, k \in Keys : GetFromCacheRLock(g, k)
    \/ \E g \in Callers : GetFromCacheReturn(g)
    \/ CacheTick

SpecCache == Init /\ [][NextCache]_vars

(***************************************************************************)
(* The block-time estimator.  The upstream answers getSlot with a height   *)
(* from Heights, or with an error, a throttling answer or no answer.       *)
(***************************************************************************)
Heights == {0, 1, 2, 32}

SlotReplies ==
    { Reply("fail", 0, EmptyString, FALSE, JNull, JNull),
      Reply("ok", 200, EmptyString, FALSE, JNull, JNull),
      Reply("ok", 200, EmptyString, TRUE, JNull, OtherError),
      Reply("ok", 200, EmptyString, TRUE, JString(Text(<<"x">>)), JNull),
      Reply("ok", StatusTooManyRequests, EmptyString, TRUE, JNull, ThrottleError) } \cup
    { Reply("ok", 200, EmptyString, TRUE, JNumber(h), JNull) : h \in Heights }

\* GetSlot: makeRPCCall("getSlot"), then slot, ok := resp.Result.(float64)
GetSlot(reply) ==
    LET r == makeRPCCall(reply)
    IN  IF r.err # NoError THEN [slot |-> 0, err |-> TRUE]
        ELSE IF r.resp.Result.kind # "number" THEN [slot |-> 0, err |-> TRUE]
        ELSE [slot |-> r.resp.Result.n, err |-> FALSE]

\* variant of Plausible: every computed block time is published
Plausible_Always(blockTime) == TRUE

\* variant of Plausible: no lower end of the band
Plausible_NoFloor(blockTime) == AtMost(blockTime, MaxBlockTime)

\* blockTime >= 0.1 && blockTime <= 2.0
Plausible(blockTime) == AtLeast(blockTime, MinBlockTime) /\ AtMost(blockTime, MaxBlockTime)

\* variant of Sample: a height that went back counts like one that advanced
Sample_EitherWay(currentSlot, laterSlot) ==
    IF laterSlot = currentSlot THEN [ok |-> FALSE, blockTime |-> Ratio(0, 1)]
    ELSE [ok |-> TRUE,
          blockTime |-> Ratio(SampleInterval, IF laterSlot < currentSlot
                                             THEN currentSlot - laterSlot
                                             ELSE laterSlot - currentSlot)]

\* if laterSlot <= currentSlot { return }; blockTime := 3.0 / float64(laterSlot - currentSlot)
Sample(currentSlot, laterSlot) ==
    IF laterSlot <= currentSlot THEN [ok |-> FALSE, blockTime |-> Ratio(0, 1)]
    ELSE LET slotDifference == laterSlot - currentSlot
             timeDifference == SampleInterval
         IN  [ok |-> TRUE, blockTime |-> Ratio(timeDifference, slotDifference)]

\* variant of Fresh: the published value is fresh for a minute
Fresh_Minute(age, blockTime) == age < 2 * FreshWindow /\ Positive(blockTime)

\* time.Since(s.lastBlockTimeCheck) < 30*time.Second && s.lastBlockTime > 0
Fresh(age, blockTime) == age < FreshWindow /\ Positive(blockTime)

\* run slots that no goroutine uses, and calls that may still start a run
FreeRuns == {s \in Runs : run[s].pc = "free"}
MayStart == {r \in Callers : reader[r].pc \in {"RLock1", "test1", "go"}}

\* a caller enters GetCachedBlockTime and reaches the first s.mutex.RLock()
GetCachedBlockTimeCall(r) ==
    /\ reader[r].pc \in {"idle", "returned:357", "returned:367", "returned:371"}
    /\ Cardinality(FreeRuns) > Cardinality(MayStart)
    /\ reader' = [reader EXCEPT ![r] = [NoReader EXCEPT !.pc = "RLock1",
                                                        !.atCall = lastBlockTime]]
    /\ UNCHANGED <<mutex, lastBlockTime, lastBlockTimeCheck, run, accepted,
                   retryVars, cacheVars, at>>

\* variant of GetCachedBlockTimeRLock: the second read waits until no run is under way
GetCachedBlockTimeRLock_Waits(r) ==
    /\ reader[r].pc \in {"RLock1", "RLock2"}
    /\ CanRLock
    /\ reader[r].pc = "RLock2" => \A s \in Runs : run[s].pc = "free"
    /\ mutex' = RLock(<<"reader", r>>)
    /\ reader' = [reader EXCEPT ![r].pc = IF @ = "RLock1" THEN "test1" ELSE "test2"]
    /\ UNCHANGED <<lastBlockTime, lastBlockTimeCheck, run, accepted, retryVars, cacheVars, at>>

\* s.mutex.RLock() returns, the first or the second time
GetCachedBlockTimeRLock(r) ==
    /\ reader[r].pc \in {"RLock1", "RLock2"}
    /\ CanRLock
    /\ mutex' = RLock(<<"reader", r>>)
    /\ reader' = [reader EXCEPT ![r].pc = IF @ = "RLock1" THEN "test1" ELSE "test2"]
    /\ UNCHANGED <<lastBlockTime, lastBlockTimeCheck, run, accepted, retryVars, cacheVars, at>>

\* the freshness test, and s.mutex.RUnlock() on either branch
GetCachedBlockTimeFirst(r) ==
    /\ reader[r].pc = "test1"
    /\ mutex' = RUnlock(<<"reader", r>>)
    /\ IF Fresh(lastBlockTimeCheck, lastBlockTime)
       THEN reader' = [reader EXCEPT ![r].pc = "returned:357", ![r].ret = lastBlockTime]
       ELSE reader' = [reader EXCEPT ![r].pc = "go"]
    /\ UNCHANGED <<lastBlockTime, lastBlockTimeCheck, run, accepted, retryVars, cacheVars, at>>

\* go s.updateBlockTimeInBackground()
GetCachedBlockTimeGo(r) ==
    /\ reader[r].pc = "go"
    /\ \E s \in FreeRuns :
          /\ \A t \in FreeRuns : s <= t
          /\ run' = [run EXCEPT ![s] = Started]
          /\ reader' = [reader EXCEPT ![r].pc = "RLock2"]
    /\ UNCHANGED <<mutex, lastBlockTime, lastBlockTimeCheck, accepted, retryVars, cacheVars, at>>

\* the second read, s.mutex.RUnlock() on either branch, and the return
GetCachedBlockTimeSecond(r) ==
    /\ reader[r].pc = "test2"
    /\ mutex' = RUnlock(<<"reader", r>>)
    /\ IF Positive(lastBlockTime)
       THEN reader' = [reader EXCEPT ![r].pc = "returned:367", ![r].ret = lastBlockTime]
       ELSE reader' = [reader EXCEPT ![r].pc = "returned:371", ![r].ret = Ratio(2, 5)]
    /\ UNCHANGED <<lastBlockTime, lastBlockTimeCheck, run, accepted, retryVars, cacheVars, at>>

\* currentSlot, err := s.GetSlot()
FirstSlot(s, reply) ==
    /\ run[s].pc = "GetSlot"
    /\ LET got == GetSlot(reply)
       IN  run' = [run EXCEPT ![s] = [NoRun EXCEPT !.pc = "first", !.currentSlot = got.slot,
                                                   !.err = got.err]]
    /\ UNCHANGED <<mutex, lastBlockTime, lastBlockTimeCheck, reader, accepted,
                   retryVars, cacheVars, at>>

\* variant of FirstCheck: a run that fails at its first GetSlot records the time
FirstCheck_Stamps(s) ==
    /\ run[s].pc = "first"
    /\ IF run[s].err
       THEN run' = [run EXCEPT ![s] = NoRun] /\ lastBlockTimeCheck' = 0
       ELSE /\ run' = [run EXCEPT ![s].pc = "Sleep", ![s].wake = SampleInterval]
            /\ UNCHANGED lastBlockTimeCheck
    /\ UNCHANGED <<mutex, lastBlockTime, reader, accepted, retryVars, cacheVars, at>>

\* if err != nil { return }; time.Sleep(3 * time.Second)
FirstCheck(s) ==
    /\ run[s].pc = "first"
    /\ IF run[s].err THEN run' = [run EXCEPT ![s] = NoRun]
       ELSE run' = [run EXCEPT ![s].pc = "Sleep", ![s].wake = SampleInterval]
    /\ UNCHANGED <<mutex, lastBlockTime, lastBlockTimeCheck, reader, accepted,
                   retryVars, cacheVars, at>>

\* the sleep is over; laterSlot, err := s.GetSlot()
SecondSlot(s, reply) ==
    /\ run[s].pc = "Sleep"
    /\ run[s].wake = 0
    /\ LET got == GetSlot(reply)
       IN  run' = [run EXCEPT ![s].pc = "second", ![s].laterSlot = got.slot,
                              ![s].err = got.err]
    /\ UNCHANGED <<mutex, lastBlockTime, lastBlockTimeCheck, reader, accepted,
                   retryVars, cacheVars, at>>

\* the two early returns, the sample and the band test, up to s.mutex.Lock()
SecondCheck(s) ==
    /\ run[s].pc = "second"
    /\ LET sample == Sample(run[s].currentSlot, run[s].laterSlot)
       IN  IF ~run[s].err /\ sample.ok /\ Plausible(sample.blockTime)
           THEN /\ run' = [run EXCEPT ![s] = [NoRun EXCEPT !.pc = "Lock",
                                                           !.blockTime = sample.blockTime]]
                /\ mutex' = LockCalled(<<"run", s>>)
           ELSE /\ run' = [run EXCEPT ![s] = NoRun]
                /\ UNCHANGED mutex
    /\ UNCHANGED <<lastBlockTime, lastBlockTimeCheck, reader, accepted, retryVars, cacheVars, at>>

\* variant of RunLock: the run goes on to write without the lock
RunLock_NoLock(s) ==
    /\ run[s].pc = "Lock"
    /\ mutex' = [mutex EXCEPT !.pending = @ \ {<<"run", s>>}]
    /\ run' = [run EXCEPT ![s].pc = "value"]
    /\ UNCHANGED <<lastBlockTime, lastBlockTimeCheck, reader, accepted, retryVars, cacheVars, at>>

\* s.mutex.Lock() returns
RunLock(s) ==
    /\ run[s].pc = "Lock"
    /\ CanLock(<<"run", s>>)
    /\ mutex' = Lock(<<"run", s>>)
    /\ run' = [run EXCEPT ![s].pc = "value"]
    /\ UNCHANGED <<lastBlockTime, lastBlockTimeCheck, reader, accepted, retryVars, cacheVars, at>>

\* s.lastBlockTime = blockTime
RunWriteValue(s) ==
    /\ run[s].pc = "value"
    /\ lastBlockTime' = run[s].blockTime
    /\ run' = [run EXCEPT ![s].pc = "stamp"]
    /\ UNCHANGED <<mutex, lastBlockTimeCheck, reader, accepted, retryVars, cacheVars, at>>

\* s.lastBlockTimeCheck = time.Now(), s.mutex.Unlock(), and the run ends
RunWriteStamp(s) ==
    /\ run[s].pc = "stamp"
    /\ lastBlockTimeCheck' = 0
    /\ accepted' = run[s].blockTime
    /\ mutex' = Unlock(<<"run", s>>)
    /\ run' = [run EXCEPT ![s] = NoRun]
    /\ UNCHANGED <<lastBlockTime, reader, retryVars, cacheVars, at>>

\* The estimator looks at the time in two places only: a sleeping run resumes
\* when its 3 seconds are over, and a reader tests whether the published value
\* is less than 30 seconds old.  Dues are the times until one of these changes.
Dues ==
    {run[s].wake : s \in {t \in Runs : run[t].wake > 0}} \cup
    {FreshWindow - lastBlockTimeCheck : x \in {y \in {1} : lastBlockTimeCheck < FreshWindow}}

\* time passes until the next of these
BlockElapse ==
    /\ Dues # {}
    /\ \E d \in Dues :
          /\ \A e \in Dues : d <= e
          /\ lastBlockTimeCheck' = Min(lastBlockTimeCheck + d, FreshWindow)
          /\ run' = [s \in Runs |-> [run[s] EXCEPT !.wake = Max(@ - d, 0)]]
    /\ UNCHANGED <<mutex, lastBlockTime, reader, accepted, retryVars, cacheVars, at>>

\* callers of GetCachedBlockTime and the sampling runs they start
NextBlockTime ==
    \/ \E r \in Callers : GetCachedBlockTimeCall(r)
    \/ \E r \in Callers : GetCachedBlockTimeRLock(r)
    \/ \E r \in Callers : GetCachedBlockTimeFirst(r)
    \/ \E r \in Callers : GetCachedBlockTimeGo(r)
    \/ \E r \in Callers : GetCachedBlockTimeSecond(r)
    \/ \E s \in Runs, reply \in SlotReplies : FirstSlot(s, reply)
    \/ \E s \in Runs : FirstCheck(s)
    \/ \E s \in Runs, reply \in SlotReplies : SecondSlot(s, reply)
    \/ \E s \in Runs : SecondCheck(s)
    \/ \E s \in Runs : RunLock(s)
    \/ \E s \in Runs : RunWriteValue(s)
    \/ \E s \in Runs : RunWriteStamp(s)
    \/ BlockElapse

SpecBlockTime == Init /\ [][NextBlockTime]_vars

\* every caller of GetCachedBlockTime keeps running and gets the read lock when
\* it is free again and again, and a goroutine inside a critical section leaves
\* it; nothing is assumed about the upstream, the sleeps or the passage of time
ReaderFairness ==
    /\ \A r \in Callers : SF_vars(GetCachedBlockTimeRLock(r))
    /\ \A r \in Callers : WF_vars(GetCachedBlockTimeFirst(r))
    /\ \A r \in Callers : WF_vars(GetCachedBlockTimeGo(r))
    /\ \A r \in Callers : WF_vars(GetCachedBlockTimeSecond(r))
    /\ \A s \in Runs : WF_vars(RunLock(s))
    /\ \A s \in Runs : WF_vars(RunWriteValue(s))
    /\ \A s \in Runs : WF_vars(RunWriteStamp(s))

\* one caller of GetCachedBlockTime and the sampling runs
NextOneReader ==
    \/ GetCachedBlockTimeCall(1)
    \/ GetCachedBlockTimeRLock(1)
    \/ GetCachedBlockTimeFirst(1)
    \/ GetCachedBlockTimeGo(1)
    \/ GetCachedBlockTimeSecond(1)
    \/ \E s \in Runs, reply \in SlotReplies : FirstSlot(s, reply)
    \/ \E s \in Runs : FirstCheck(s)
    \/ \E s \in Runs, reply \in SlotReplies : SecondSlot(s, reply)
    \/ \E s \in Runs : SecondCheck(s)
    \/ \E s \in Runs : RunLock(s)
    \/ \E s \in Runs : RunWriteValue(s)
    \/ \E s \in Runs : RunWriteStamp(s)
    \/ BlockElapse

SpecOneReader == Init /\ [][NextOneReader]_vars

FairBlockTime == SpecOneReader /\ ReaderFairness

(***************************************************************************)
(* The way of a goroutine through the functions that use the lock, sleep   *)
(* or call the upstream, statement by statement.  Stmt(line) is what the   *)
(* statement at a source line does (op), the lines control can go to       *)
(* after it (next), and for a call the first line of the function called   *)
(* (to).  Data is left out: where the code branches on a value, either     *)
(* way is taken.                                                           *)
(***************************************************************************)
St(op, next) == [op |-> op, next |-> next, to |-> 0]
CallTo(to, next) == [op |-> "call", next |-> next, to |-> to]

Stmt(line) ==
    CASE \* checkRateLimit
         line = 91 -> St("RLock", {93})
      [] line = 93 -> St("RUnlock", {95})
      [] line = 95 -> St("return", {})
         \* updateRateLimit
      [] line = 102 -> St("Lock", {103})
      [] line = 103 -> St("local", {104})
      [] line = 104 -> St("Unlock", {105})
      [] line = 105 -> St("return", {})
         \* getFromCache: the deferred RUnlock runs with the return
      [] line = 108 -> St("RLock", {111})
      [] line = 111 -> St("local", {113, 115})
      [] line = 113 -> St("RUnlock return", {})
      [] line = 115 -> St("RUnlock return", {})
         \* setCache
      [] line = 119 -> St("Lock", {120})
      [] line = 120 -> St("local", {124})
      [] line = 124 -> St("Unlock", {125})
      [] line = 125 -> St("return", {})
         \* makeRPCCall
      [] line = 175 -> St("upstream", {177, 199, 204, 207})
      [] line = 177 -> St("return", {})
      [] line = 199 -> St("return", {})
      [] line = 204 -> St("return", {})
      [] line = 207 -> St("return", {})
         \* makeRPCCallWithRetry
      [] line = 214 -> St("local", {215, 262})
      [] line = 215 -> CallTo(91, {216, 220})
      [] line = 216 -> St("sleep", {214})
      [] line = 220 -> CallTo(102, {221})
      [] line = 221 -> CallTo(175, {223})
      [] line = 223 -> St("local", {225, 228, 236, 253, 259})
      [] line = 225 -> St("return", {})
      [] line = 228 -> St("sleep", {214})
      [] line = 236 -> St("return", {})
      [] line = 253 -> St("sleep", {214})
      [] line = 259 -> St("return", {})
      [] line = 262 -> St("return", {})
         \* GetSlot
      [] line = 266 -> CallTo(175, {268, 273, 276})
      [] line = 268 -> St("return", {})
      [] line = 273 -> St("return", {})
      [] line = 276 -> St("return", {})
         \* GetCachedBlockTime
      [] line = 352 -> St("RLock", {354})
      [] line = 354 -> St("local", {356, 359})
      [] line = 356 -> St("RUnlock", {357})
      [] line = 357 -> St("return", {})
      [] line = 359 -> St("RUnlock", {361})
      [] line = 361 -> St("local", {363})
      [] line = 363 -> St("RLock", {364})
      [] line = 364 -> St("local", {366, 369})
      [] line = 366 -> St("RUnlock", {367})
      [] line = 367 -> St("return", {})
      [] line = 369 -> St("RUnlock", {371})
      [] line = 371 -> St("return", {})
         \* updateBlockTimeInBackground
      [] line = 375 -> CallTo(266, {377, 380})
      [] line = 377 -> St("return", {})
      [] line = 380 -> St("sleep", {382})
      [] line = 382 -> CallTo(266, {384, 388, 396})
      [] line = 384 -> St("return", {})
      [] line = 388 -> St("return", {})
      [] line = 396 -> St("local", {397, 403})
      [] line = 397 -> St("Lock", {398})
      [] line = 398 -> St("local", {400})
      [] line = 400 -> St("Unlock", {403})
      [] line = 403 -> St("return", {})
         \* GetTokenAccountsByMint
      [] line = 551 -> CallTo(108, {554, 558})
      [] line = 554 -> St("return", {})
      [] line = 558 -> CallTo(91, {560, 564})
      [] line = 560 -> St("return", {})
      [] line = 564 -> CallTo(214, {567, 572, 578, 584, 606})
      [] line = 567 -> St("return", {})
      [] line = 572 -> St("return", {})
      [] line = 578 -> St("return", {})
      [] line = 584 -> St("return", {})
      [] line = 606 -> CallTo(119, {608})
      [] line = 608 -> St("return", {})

\* the first lines of the functions a goroutine starts: a handler's
\* GetTokenAccountsByMint and GetCachedBlockTime, and the
\* updateBlockTimeInBackground of a go statement
Entries(g) == IF g \in Background THEN {375} ELSE {551, 352}

Here(g) == Stmt(Head(at[g]))
Me(g) == <<"goroutine", g>>
Holds(g) == mutex.writer = Me(g) \/ Me(g) \in mutex.readers

\* control goes from the statement at the top of the stack to line
Goto(g, line) == at' = [at EXCEPT ![g] = <<line>> \o Tail(@)]

\* a goroutine starts one of the functions
Start(g, line) ==
    /\ at[g] = <<>>
    /\ at' = [at EXCEPT ![g] = <<line>>]
    /\ UNCHANGED <<mutex, retryVars, cacheVars, blockVars>>

\* s.mutex.RLock()
DoRLock(g) ==
    /\ at[g] # <<>> /\ Here(g).op = "RLock"
    /\ CanRLock
    /\ mutex' = RLock(Me(g))
    /\ \E line \in Here(g).next : Goto(g, line)
    /\ UNCHANGED <<retryVars, cacheVars, blockVars>>

\* variant of DoRUnlock: the RUnlock of line 359 is left out
DoRUnlock_Not359(g) ==
    /\ at[g] # <<>> /\ Here(g).op = "RUnlock"
    /\ mutex' = IF Head(at[g]) = 359 THEN mutex ELSE RUnlock(Me(g))
    /\ \E line \in Here(g).next : Goto(g, line)
    /\ UNCHANGED <<retryVars, cacheVars, blockVars>>

\* s.mutex.RUnlock()
DoRUnlock(g) ==
    /\ at[g] # <<>> /\ Here(g).op = "RUnlock"
    /\ mutex' = RUnlock(Me(g))
    /\ \E line \in Here(g).next : Goto(g, line)
    /\ UNCHANGED <<retryVars, cacheVars, blockVars>>

\* s.mutex.Lock() is called
DoLockCall(g) ==
    /\ at[g] # <<>> /\ Here(g).op = "Lock"
    /\ Me(g) \notin mutex.pending
    /\ mutex' = LockCalled(Me(g))
    /\ UNCHANGED <<at, retryVars, cacheVars, blockVars>>

\* s.mutex.Lock() returns
DoLock(g) ==
    /\ at[g] # <<>> /\ Here(g).op = "Lock"
    /\ CanLock(Me(g))
    /\ mutex' = Lock(Me(g))
    /\ \E line \in Here(g).next : Goto(g, line)
    /\ UNCHANGED <<retryVars, cacheVars, blockVars>>

\* s.mutex.Unlock()
DoUnlock(g) ==
    /\ at[g] # <<>> /\ Here(g).op = "Unlock"
    /\ mutex' = Unlock(Me(g))
    /\ \E line \in Here(g).next : Goto(g, line)
    /\ UNCHANGED <<retryVars, cacheVars, blockVars>>

\* a call of one of the client's functions
DoCall(g) ==
    /\ at[g] # <<>> /\ Here(g).op = "call"
    /\ at' = [at EXCEPT ![g] = <<Here(g).to>> \o @]
    /\ UNCHANGED <<mutex, retryVars, cacheVars, blockVars>>

\* a return, after the deferred RUnlock if there is one: control goes on after
\* the call, and the goroutine ends when the function was its first
DoReturn(g) ==
    /\ at[g] # <<>> /\ Here(g).op \in {"return", "RUnlock return"}
    /\ mutex' = IF Here(g).op = "RUnlock return" THEN RUnlock(Me(g)) ELSE mutex
    /\ IF Len(at[g]) = 1 THEN at' = [at EXCEPT ![g] = <<>>]
       ELSE \E line \in Stmt(at[g][2]).next : at' = [at EXCEPT ![g] = <<line>> \o Tail(Tail(@))]
    /\ UNCHANGED <<retryVars, cacheVars, blockVars>>

\* time.Sleep or the POST to the upstream: the goroutine waits, then goes on
DoWait(g) ==
    /\ at[g] # <<>> /\ Here(g).op \in {"sleep", "upstream"}
    /\ \E line \in Here(g).next : Goto(g, line)
    /\ UNCHANGED <<mutex, retryVars, cacheVars, blockVars>>

\* any other statement
DoLocal(g) ==
    /\ at[g] # <<>> /\ Here(g).op = "local"
    /\ \E line \in Here(g).next : Goto(g, line)
    /\ UNCHANGED <<mutex, retryVars, cacheVars, blockVars>>

\* the steps of goroutine g inside the functions
Move(g) ==
    \/ DoRLock(g) \/ DoRUnlock(g) \/ DoLockCall(g) \/ DoLock(g) \/ DoUnlock(g)
    \/ DoCall(g) \/ DoReturn(g) \/ DoWait(g) \/ DoLocal(g)

\* goroutines running the client's functions side by side
NextLocks ==
    \/ \E g \in Goroutines : \E line \in Entries(g) : Start(g, line)
    \/ \E g \in Goroutines : DoRLock(g)
    \/ \E g \in Goroutines : DoRUnlock(g)
    \/ \E g \in Goroutines : DoLockCall(g)
    \/ \E g \in Goroutines : DoLock(g)
    \/ \E g \in Goroutines : DoUnlock(g)
    \/ \E g \in Goroutines : DoCall(g)
    \/ \E g \in Goroutines : DoReturn(g)
    \/ \E g \in Goroutines : DoWait(g)
    \/ \E g \in Goroutines : DoLocal(g)

SpecLocks == Init /\ [][NextLocks]_vars

(***************************************************************************)
(* parseRetryAfter on its own: it is called with a header and returns.     *)
(***************************************************************************)
ParseRetryAfterCall(retryAfter) ==
    /\ parsing.pc # "called"
    /\ parsing' = [NoParse EXCEPT !.pc = "called", !.retryAfter = retryAfter]
    /\ UNCHANGED <<rateLimiter, pc, method, attempt, stamp, out, remain, delay, why,
                   ret, sent, slept>>
    /\ UNCHANGED <<mutex, cacheVars, blockVars, at, exchange, metrics, lookup, byMint, performance>>

ParseRetryAfterReturn ==
    /\ parsing.pc = "called"
    /\ parsing' = [parsing EXCEPT !.pc = "returned",
                                  !.ret = parseRetryAfter(parsing.retryAfter)]
    /\ UNCHANGED <<rateLimiter, pc, method, attempt, stamp, out, remain, delay, why,
                   ret, sent, slept>>
    /\ UNCHANGED <<mutex, cacheVars, blockVars, at, exchange, metrics, lookup, byMint, performance>>

NextParse ==
    \/ \E retryAfter \in ParseHeaders : ParseRetryAfterCall(retryAfter)
    \/ ParseRetryAfterReturn

SpecParse == Init /\ [][NextParse]_vars

(***************************************************************************)
(* makeRPCCall on its own: it posts, the upstream replies, it returns.     *)
(***************************************************************************)
MakeRPCCallPost(reply) ==
    /\ exchange.pc # "posted"
    /\ exchange' = [NoExchange EXCEPT !.pc = "posted", !.reply = reply]
    /\ UNCHANGED <<rateLimiter, pc, method, attempt, stamp, out, remain, delay, why,
                   ret, sent, slept>>
    /\ UNCHANGED <<mutex, cacheVars, blockVars, at, parsing, metrics, lookup, byMint, performance>>

MakeRPCCallReturn ==
    /\ exchange.pc = "posted"
    /\ exchange' = [exchange EXCEPT !.pc = "returned", !.ret = makeRPCCall(exchange.reply)]
    /\ UNCHANGED <<rateLimiter, pc, method, attempt, stamp, out, remain, delay, why,
                   ret, sent, slept>>
    /\ UNCHANGED <<mutex, cacheVars, blockVars, at, parsing, metrics, lookup, byMint, performance>>

NextTransport ==
    \/ \E reply \in TransportReplies : MakeRPCCallPost(reply)
    \/ MakeRPCCallReturn

SpecTransport == Init /\ [][NextTransport]_vars

(***************************************************************************)
(* The /api/metrics handler, from the upstream reads that succeeded to the *)
(* figures of the answer (the block time is the topic of GetCachedBlockTime*)
(* above).  The performance samples are JSON objects: with both numbers,   *)
(* with a period that is zero or negative, with a member missing or of     *)
(* another type; the windows are the lists of up to MaxSamples of them,    *)
(* and single samples at and next to each threshold of the health rule.    *)
(***************************************************************************)
MaxSamples == 3

SampleOf(numTransactions, samplePeriodSecs) ==
    [numTransactions |-> JNumber(numTransactions), samplePeriodSecs |-> JNumber(samplePeriodSecs)]

SampleKinds ==
    { SampleOf(100, 10), SampleOf(50, 5), SampleOf(100, 0), SampleOf(100, 0 - 5),
      [numTransactions |-> JNumber(100)], [samplePeriodSecs |-> JNumber(10)],
      [numTransactions |-> JString(Text(<<"7">>)), samplePeriodSecs |-> JNumber(1)] }

RECURSIVE Windows(_)
Windows(n) ==
    IF n = 0 THEN {<<>>}
    ELSE Windows(n - 1) \cup
         {Append(w, k) : w \in {v \in Windows(n - 1) : Len(v) = n - 1}, k \in SampleKinds}

SampleWindows ==
    Windows(MaxSamples) \cup {<<SampleOf(tx, 1)>> : tx \in {5, 10, 11, 50, 51, 60, 100, 101, 200}}

ValidatorCounts == {10, 500, 501, 600, 1000, 1001}

EpochInfos ==
    { [epoch |-> JNumber(7), slotIndex |-> JNumber(25), slotsInEpoch |-> JNumber(100)],
      [epoch |-> JNumber(7), slotIndex |-> JNumber(25), slotsInEpoch |-> JNumber(0)],
      [epoch |-> JNumber(7), slotIndex |-> JNumber(25), slotsInEpoch |-> JNumber(0 - 100)],
      [epoch |-> JNumber(7), slotIndex |-> JNumber(25)],
      [epoch |-> JNumber(7), slotIndex |-> JNumber(25), slotsInEpoch |-> JString(Text(<<"x">>))],
      [epoch |-> JNumber(7), slotsInEpoch |-> JNumber(100)],
      [epoch |-> JNumber(7), slotIndex |-> JNumber(100), slotsInEpoch |-> JNumber(100)],
      [epoch |-> JNumber(7), slotIndex |-> JNumber(1), slotsInEpoch |-> JNumber(3)] }

\* GetEpochInfo, GetValidatorCount and GetPerformanceSamples have returned
MetricsRead(epochInfo, validatorCount, samples) ==
    /\ metrics.pc = "none"
    /\ metrics' = [NoMetrics EXCEPT !.pc = "read", !.epochInfo = epochInfo,
                                    !.validatorCount = validatorCount, !.samples = samples]
    /\ UNCHANGED <<rateLimiter, pc, method, attempt, stamp, out, remain, delay, why,
                   ret, sent, slept>>
    /\ UNCHANGED <<mutex, cacheVars, blockVars, at, parsing, exchange, lookup, byMint, performance>>

\* tps, epochProgress and networkHealth of the answer
MetricsCompute ==
    /\ metrics.pc = "read"
    /\ LET tps == calculateTPS(metrics.samples)
       IN  metrics' = [metrics EXCEPT !.pc = "computed",
                                      !.tps = tps,
                                      !.epochProgress = EpochProgress(metrics.epochInfo),
                                      !.networkHealth = NetworkHealth(tps, metrics.validatorCount)]
    /\ UNCHANGED <<rateLimiter, pc, method, attempt, stamp, out, remain, delay, why,
                   ret, sent, slept>>
    /\ UNCHANGED <<mutex, cacheVars, blockVars, at, parsing, exchange, lookup, byMint, performance>>

\* the request is answered; the next one may come
MetricsAnswer ==
    /\ metrics.pc = "computed"
    /\ metrics' = NoMetrics
    /\ UNCHANGED <<rateLimiter, pc, method, attempt, stamp, out, remain, delay, why,
                   ret, sent, slept>>
    /\ UNCHANGED <<mutex, cacheVars, blockVars, at, parsing, exchange, lookup, byMint, performance>>

NextMetrics ==
    \/ /\ metrics.pc = "none"
       /\ \E samples \in SampleWindows :
              \E epochInfo \in EpochInfos, validatorCount \in ValidatorCounts :
                  MetricsRead(epochInfo, validatorCount, samples)
    \/ MetricsCompute
    \/ MetricsAnswer

SpecMetrics == Init /\ [][NextMetrics]_vars

(***************************************************************************)
(* The account and token lookups.  The upstream answers each POST with a   *)
(* failure, a body that does not decode, a JSON-RPC error, or a result:    *)
(* null, of another type than an object, without value, with a value that  *)
(* is no object, and with a value object that has all, some or none of the *)
(* members the lookup reads.                                               *)
(***************************************************************************)
SomeOwner == JString(Text(<<"o">>))
AmountOf(chars) == JString(Text(chars))
TwoToThe64 == <<"1", "8", "4", "4", "6", "7", "4", "4", "0", "7", "3", "7", "0", "9", "5", "5",
                "1", "6", "1", "6">>

\* all but the last digit of 2^53 = 9007199254740992
TwoToThe53 == <<"9", "0", "0", "7", "1", "9", "9", "2", "5", "4", "7", "4", "0", "9", "9">>

ValueOf(fields) == JObject([value |-> JObject(fields)])

LookupResults ==
    { JNull, JNumber(1), JObject([context |-> JNumber(1)]), SomeResult,
      ValueOf(<<>>),
      ValueOf([lamports |-> JNumber(5), owner |-> SomeOwner]),
      ValueOf([lamports |-> JNumber(5)]),
      ValueOf([owner |-> SomeOwner]),
      ValueOf([amount |-> AmountOf(<<"1", "0", "0", "0">>), decimals |-> JNumber(2)]),
      ValueOf([amount |-> AmountOf(<<"1", "0", "0", "0">>)]),
      ValueOf([decimals |-> JNumber(2)]),
      ValueOf([amount |-> AmountOf(<<"x">>), decimals |-> JNumber(2)]),
      ValueOf([amount |-> AmountOf(TwoToThe64), decimals |-> JNumber(2)]),
      ValueOf([amount |-> AmountOf(<<"1", "2", "3", "4", "5", "6">>), decimals |-> JNumber(2)]),
      ValueOf([amount |-> AmountOf(TwoToThe53 \o <<"2">>), decimals |-> JNumber(0)]),
      ValueOf([amount |-> AmountOf(TwoToThe53 \o <<"3">>), decimals |-> JNumber(0)]),
      ValueOf([lamports |-> JNumber(1500000000), owner |-> SomeOwner]),
      JObject([value |-> JNumber(1500000000)]) }

LookupReplies ==
    { Reply("fail", 0, EmptyString, FALSE, JNull, JNull),
      Reply("ok", 200, EmptyString, FALSE, JNull, JNull),
      Reply("ok", 200, EmptyString, TRUE, JNull, OtherError),
      Reply("ok", StatusTooManyRequests, EmptyString, FALSE, JNull, JNull),
      Reply("ok", StatusTooManyRequests, EmptyString, TRUE, JNull, ThrottleError) } \cup
    { Reply("ok", 200, EmptyString, TRUE, result, JNull) : result \in LookupResults }

\* GET /api/account/:address
GetAccountInfoCall(reply) ==
    /\ lookup.pc \in {"none", "returned"}
    /\ lookup' = [NoLookup EXCEPT !.pc = "account", !.fn = "GetAccountInfo", !.reply = reply]
    /\ UNCHANGED <<rateLimiter, pc, method, attempt, stamp, out, remain, delay, why,
                   ret, sent, slept>>
    /\ UNCHANGED <<mutex, cacheVars, blockVars, at, parsing, exchange, metrics, byMint,
                   performance>>

GetAccountInfoReturn ==
    /\ lookup.pc = "account"
    /\ lookup' = [lookup EXCEPT !.pc = "returned", !.ret = GetAccountInfo(lookup.reply)]
    /\ UNCHANGED <<rateLimiter, pc, method, attempt, stamp, out, remain, delay, why,
                   ret, sent, slept>>
    /\ UNCHANGED <<mutex, cacheVars, blockVars, at, parsing, exchange, metrics, byMint,
                   performance>>

\* GET /api/token/:mintAddress
GetTokenSupplyCall(reply, mintReply) ==
    /\ lookup.pc \in {"none", "returned"}
    /\ lookup' = [NoLookup EXCEPT !.pc = "token", !.fn = "GetTokenSupply", !.reply = reply,
                                   !.mintReply = mintReply]
    /\ UNCHANGED <<rateLimiter, pc, method, attempt, stamp, out, remain, delay, why,
                   ret, sent, slept>>
    /\ UNCHANGED <<mutex, cacheVars, blockVars, at, parsing, exchange, metrics, byMint,
                   performance>>

GetTokenSupplyReturn ==
    /\ lookup.pc = "token"
    /\ lookup' = [lookup EXCEPT !.pc = "returned",
                                !.ret = GetTokenSupply(lookup.reply, lookup.mintReply)]
    /\ UNCHANGED <<rateLimiter, pc, method, attempt, stamp, out, remain, delay, why,
                   ret, sent, slept>>
    /\ UNCHANGED <<mutex, cacheVars, blockVars, at, parsing, exchange, metrics, byMint,
                   performance>>

\* GET /api/balance/:address
GetBalanceCall(reply) ==
    /\ lookup.pc \in {"none", "returned"}
    /\ lookup' = [NoLookup EXCEPT !.pc = "balance", !.fn = "GetBalance", !.reply = reply]
    /\ UNCHANGED <<rateLimiter, pc, method, attempt, stamp, out, remain, delay, why,
                   ret, sent, slept>>
    /\ UNCHANGED <<mutex, cacheVars, blockVars, at, parsing, exchange, metrics, byMint,
                   performance>>

GetBalanceReturn ==
    /\ lookup.pc = "balance"
    /\ lookup' = [lookup EXCEPT !.pc = "returned", !.ret = GetBalance(lookup.reply)]
    /\ UNCHANGED <<rateLimiter, pc, method, attempt, stamp, out, remain, delay, why,
                   ret, sent, slept>>
    /\ UNCHANGED <<mutex, cacheVars, blockVars, at, parsing, exchange, metrics, byMint,
                   performance>>

NextLookup ==
    \/ /\ lookup.pc \in {"none", "returned"}
       /\ \E reply \in LookupReplies : GetAccountInfoCall(reply)
    \/ GetAccountInfoReturn
    \/ /\ lookup.pc \in {"none", "returned"}
       /\ \E reply \in LookupReplies, mintReply \in LookupReplies :
              GetTokenSupplyCall(reply, mintReply)
    \/ GetTokenSupplyReturn
    \/ /\ lookup.pc \in {"none", "returned"}
       /\ \E reply \in LookupReplies : GetBalanceCall(reply)
    \/ GetBalanceReturn

SpecLookup == Init /\ [][NextLookup]_vars

(***************************************************************************)
(* The token holders.  One handler at a time calls GetTokenAccountsByMint, *)
(* which looks in the cache, asks the rate limiter, and runs               *)
(* makeRPCCallWithRetry as caller 1 of the retry machine above; requests   *)
(* follow one another, so that a request finds the ledger and the cache as *)
(* the ones before it left them.  The five minutes of a cache entry are    *)
(* HoldersTTL ticks of the cache's own clock.                              *)
(***************************************************************************)
HoldersMethod == "getTokenLargestAccounts"
HoldersTTL == 2
Limits == {1, 20}
HoldersKey(limit) == IF limit = 20 THEN "token_holders_M_20" ELSE "token_holders_M_1"

AccountOf(address) ==
    JObject([address |-> JString(Text(<<address>>)), amount |-> JString(Text(<<"5">>)),
             decimals |-> JNumber(2)])

HoldersResults ==
    { JNull, JNumber(1), SomeResult,
      JObject([value |-> JArray(<<>>)]),
      JObject([value |-> JArray(<<JNumber(1)>>)]),
      JObject([value |-> JArray(<<AccountOf("a"), JNumber(1), AccountOf("b")>>)]) }

HoldersReplies ==
    { Reply("fail", 0, EmptyString, FALSE, JNull, JNull),
      Reply("ok", 200, EmptyString, FALSE, JNull, JNull),
      Reply("ok", 200, EmptyString, TRUE, JNull, OtherError),
      Reply("ok", 200, EmptyString, TRUE, JNull, ThrottleError),
      Reply("ok", 200, EmptyString, TRUE, JNull, HintedError),
      Reply("ok", StatusTooManyRequests, EmptyString, FALSE, JNull, JNull),
      Reply("ok", StatusTooManyRequests, EmptyString, TRUE, JNull, ThrottleError) } \cup
    { Reply("ok", 200, EmptyString, TRUE, result, JNull) : result \in HoldersResults }

\* the handler calls GetTokenAccountsByMint(mintAddress, limit): the cache first
GetTokenAccountsByMintCall(limit) ==
    /\ byMint.pc \in {"none", "returned"}
    /\ LET got == getFromCache(cache, HoldersKey(limit))
       IN  byMint' = IF got.found
                     THEN [pc |-> "returned", limit |-> limit, from |-> "cache",
                           ret |-> [holders |-> got.data, err |-> NoError]]
                     ELSE [NoByMint EXCEPT !.pc = "missed", !.limit = limit]
    /\ UNCHANGED <<rateLimiter, pc, method, attempt, stamp, out, remain, delay, why,
                   ret, sent, slept>>
    /\ UNCHANGED <<mutex, cacheVars, blockVars, at, parsing, exchange, metrics, lookup,
                   performance>>

\* if !s.checkRateLimit("getTokenLargestAccounts") { return empty }; otherwise
\* the call enters makeRPCCallWithRetry with fresh locals
GetTokenAccountsByMintCheck ==
    /\ byMint.pc = "missed"
    /\ IF ~checkRateLimit(rateLimiter, HoldersMethod)
       THEN /\ byMint' = [byMint EXCEPT !.pc = "returned", !.from = "ratelimit",
                                        !.ret = [holders |-> EmptyList, err |-> NoError]]
            /\ UNCHANGED <<pc, method, attempt, out, ret, sent, slept>>
       ELSE /\ byMint' = [byMint EXCEPT !.pc = "retrying"]
            /\ pc' = [pc EXCEPT ![1] = "check"]
            /\ method' = [method EXCEPT ![1] = HoldersMethod]
            /\ attempt' = [attempt EXCEPT ![1] = 0]
            /\ out' = [out EXCEPT ![1] = NoOutcome]
            /\ ret' = [ret EXCEPT ![1] = NoOutcome]
            /\ sent' = [sent EXCEPT ![1] = <<>>]
            /\ slept' = [slept EXCEPT ![1] = 0]
    /\ UNCHANGED <<rateLimiter, stamp, remain, delay, why>>
    /\ UNCHANGED <<mutex, cacheVars, blockVars, at, parsing, exchange, metrics, lookup,
                   performance>>

\* makeRPCCallWithRetry has returned: the rest of GetTokenAccountsByMint
GetTokenAccountsByMintReturn ==
    /\ byMint.pc = "retrying"
    /\ pc[1] = "done"
    /\ LET after == AfterRetry(ret[1], byMint.limit)
       IN  /\ byMint' = [byMint EXCEPT !.pc = "returned", !.from = "upstream",
                                        !.ret = [holders |-> after.holders, err |-> after.err]]
           /\ cache' = IF after.store
                       THEN setCache(cache, HoldersKey(byMint.limit), after.holders, HoldersTTL)
                       ELSE cache
    /\ UNCHANGED <<rateLimiter, pc, method, attempt, stamp, out, remain, delay, why,
                   ret, sent, slept>>
    /\ UNCHANGED <<mutex, user, stored, blockVars, at, parsing, exchange, metrics, lookup,
                   performance>>

\* a second passes between two requests
HoldersWait == ~Running /\ Pass(1)

NextHolders ==
    \/ /\ byMint.pc \in {"none", "returned"}
       /\ \E limit \in Limits : GetTokenAccountsByMintCall(limit)
    \/ GetTokenAccountsByMintCheck
    \/ CheckRateLimit(1)
    \/ UpdateRateLimit(1)
    \/ /\ pc[1] = "call"
       /\ \E reply \in HoldersReplies : Dispatch(1, reply)
    \/ Continue(1)
    \/ Tick
    \/ Elapse
    \/ HoldersWait
    \/ CacheTick
    \/ GetTokenAccountsByMintReturn

SpecHolders == Init /\ [][NextHolders]_vars

(***************************************************************************)
(* The cached queries.  Requests for the holders of a token and for the    *)
(* performance samples follow one another on one client and share its      *)
(* cache; the upstream answers with a failure or with a well-formed        *)
(* result.  A tick of the cache's clock is 15 seconds.                     *)
(***************************************************************************)
\* the requests to /api/performance: ?timeRange=5m and ?timeRange=20m&limit=x
PerformanceRequests == {<<"5m", EmptyString>>, <<"20m", Text(<<"x">>)>>}

PerformanceReplies ==
    { Reply("fail", 0, EmptyString, FALSE, JNull, JNull),
      Reply("ok", 200, EmptyString, TRUE, JNull, OtherError),
      Reply("ok", 200, EmptyString, TRUE,
            JArray(<<JObject([numTransactions |-> JNumber(100),
                              samplePeriodSecs |-> JNumber(10)]), JNumber(1)>>), JNull) }

CachedReplies ==
    { Reply("fail", 0, EmptyString, FALSE, JNull, JNull),
      Reply("ok", 200, EmptyString, TRUE,
            JObject([value |-> JArray(<<AccountOf("a")>>)]), JNull) }

\* no request is under way
Quiet == byMint.pc \in {"none", "returned"} /\ performance.pc \in {"none", "returned"}

\* GET /api/performance: the limit, the key, and the cache first
PerformanceCall(timeRange, limitStr) ==
    /\ performance.pc \in {"none", "returned"}
    /\ LET limit == PerformanceLimit(timeRange, limitStr)
           got == getFromCache(cache, PerformanceKey(timeRange, limit))
       IN  performance' =
               IF got.found
               THEN [pc |-> "returned", timeRange |-> timeRange, limit |-> limit,
                     status |-> 200, samples |-> got.data, cached |-> TRUE, posts |-> 0]
               ELSE [NoPerformance EXCEPT !.pc = "missed", !.timeRange = timeRange,
                                          !.limit = limit]
    /\ UNCHANGED <<rateLimiter, pc, method, attempt, stamp, out, remain, delay, why,
                   ret, sent, slept>>
    /\ UNCHANGED <<mutex, cacheVars, blockVars, at, parsing, exchange, metrics, lookup,
                   byMint>>

\* client.GetPerformanceSamples(limit), and the rest of the handler
PerformanceFetch(reply) ==
    /\ performance.pc = "missed"
    /\ LET got == GetPerformanceSamples(reply)
       IN  IF got.err # NoError
           THEN /\ performance' = [performance EXCEPT !.pc = "returned", !.status = 500,
                                                      !.posts = 1]
                /\ UNCHANGED cache
           ELSE /\ performance' = [performance EXCEPT !.pc = "returned", !.status = 200,
                                                      !.samples = got.samples, !.posts = 1]
                /\ cache' = setCache(cache,
                                     PerformanceKey(performance.timeRange, performance.limit),
                                     got.samples, CacheDuration(performance.timeRange))
    /\ UNCHANGED <<rateLimiter, pc, method, attempt, stamp, out, remain, delay, why,
                   ret, sent, slept>>
    /\ UNCHANGED <<mutex, user, stored, blockVars, at, parsing, exchange, metrics, lookup,
                   byMint>>

NextCached ==
    \/ /\ Quiet
       /\ \E request \in PerformanceRequests : PerformanceCall(request[1], request[2])
    \/ /\ performance.pc = "missed"
       /\ \E reply \in PerformanceReplies : PerformanceFetch(reply)
    \/ Quiet /\ GetTokenAccountsByMintCall(20)
    \/ GetTokenAccountsByMintCheck
    \/ CheckRateLimit(1)
    \/ UpdateRateLimit(1)
    \/ /\ pc[1] = "call"
       /\ \E reply \in CachedReplies : Dispatch(1, reply)
    \/ Continue(1)
    \/ Tick
    \/ Elapse
    \/ HoldersWait
    \/ CacheTick
    \/ GetTokenAccountsByMintReturn

SpecCached == Init /\ [][NextCached]_vars

(***************************************************************************)
(* What the claims speak about.  Caller c's i-th dispatch is <<c, i>>, and *)
(* Age is the time elapsed since the ledger time stamp written for it.     *)
(* Two time stamps that are both less than 2 seconds old are less than 2   *)
(* seconds apart, and when the later of two stamps less than 2 seconds     *)
(* apart is written, the earlier is less than 2 seconds old.               *)
(***************************************************************************)
Dispatches == {x \in Callers \X (1..maxRetries) : x[2] <= Len(sent[x[1]])}
Age(x) == sent[x[1]][x[2]]
Close(x, y) == Age(x) < 2 /\ Age(y) < 2

\* the outcome of caller c's dispatch is a transport-level failure
TransportFailed(c) == out[c].err \notin {NoError, "none"}

\* the outcome of caller c's dispatch is a response whose error is an object
\* with the numeric code 429
Got429(c) ==
    /\ out[c].err = NoError
    /\ out[c].resp.Error.kind = "object"
    /\ "code" \in DOMAIN out[c].resp.Error.fields
    /\ out[c].resp.Error.fields["code"] = [kind |-> "number", n |-> 429]

\* the outcome of caller c's dispatch is any other response
GotOther(c) == out[c].err = NoError /\ ~Got429(c)

\* the 429 response of caller c carries a retryAfter string that parses
Hinted(c) ==
    LET f == out[c].resp.Error.fields
    IN  /\ "retryAfter" \in DOMAIN f
        /\ f["retryAfter"].kind = "string"
        /\ ~parseRetryAfter(f["retryAfter"].s).err

(***************************************************************************)
(* C1, as stated: for every method, no two dispatches of any callers of    *)
(* makeRPCCallWithRetry on the client are issued less than 2 seconds       *)
(* apart, by the ledger time stamps written before them.                   *)
(***************************************************************************)
C1_AllDispatchesSpaced ==
    \A x \in Dispatches, y \in Dispatches :
        x # y /\ method[x[1]] = method[y[1]] => ~Close(x, y)

C1_SameCallSpaced ==
    \A x \in Dispatches, y \in Dispatches : x # y /\ x[1] = y[1] => ~Close(x, y)

C1_EligibleAfterQuiet ==
    \A c \in Callers :
        pc[c] = "check" /\ pc'[c] = "update" =>
            \A d \in Callers :
                method[d] = method[c] =>
                    /\ \A i \in 1..Len(sent[d]) : sent[d][i] >= 2
                    /\ pc[d] = "call" => stamp[d] >= 2

(***************************************************************************)
(* C1, amended: two dispatches of one call are never less than 2 seconds   *)
(* apart, and whenever checkRateLimit(m) reports eligible every ledger     *)
(* time stamp written for m so far is at least 2 seconds old.              *)
(***************************************************************************)
C1_Amended == []C1_SameCallSpaced /\ [][C1_EligibleAfterQuiet]_vars

\* C1: two callers of one method, one on its second dispatch
C1_Witness ==
    \E c \in Callers, d \in Callers :
        /\ c # d /\ method[c] = method[d]
        /\ Len(sent[c]) >= 2 /\ Len(sent[d]) >= 1

(***************************************************************************)
(* C2, as stated: a rate-limit rejection sleeps 2 seconds and retries the  *)
(* same attempt slot: the attempt index is the same after the sleep.       *)
(***************************************************************************)
C2_RejectionKeepsSlot ==
    [][\A c \in Callers :
          pc[c] = "sleep" /\ why[c] = "ratelimit" /\ pc'[c] # "sleep" =>
              pc'[c] = "check" /\ attempt'[c] = attempt[c]]_vars

C3_CheckStep ==
    \A c \in Callers :
        pc[c] = "check" /\ pc'[c] # "check" =>
            IF method[c] \notin DOMAIN rateLimiter \/ rateLimiter[method[c]] >= 2
            THEN pc'[c] = "update"
            ELSE pc'[c] = "sleep" /\ why'[c] = "ratelimit" /\ delay'[c] = 2

C3_UpdateStep ==
    \A c \in Callers :
        pc[c] = "update" /\ pc'[c] = "call" =>
            /\ method[c] \in DOMAIN rateLimiter'
            /\ rateLimiter'[method[c]] = 0

(***************************************************************************)
(* C3: checkRateLimit(m) reports eligible when the ledger has no entry for *)
(* m or at least 2 seconds have elapsed since the recorded time (exactly 2 *)
(* seconds is eligible) and not eligible when less than 2 seconds have     *)
(* elapsed; updateRateLimit(m) records now, so every check of m is         *)
(* refused until 2 seconds have passed.                                    *)
(***************************************************************************)
C3_RateLimitContract == [][C3_CheckStep /\ C3_UpdateStep]_vars

\* C3: a caller found eligible exactly 2 seconds after the last dispatch of its method
C3_Witness ==
    \E c \in Callers :
        /\ pc[c] = "update"
        /\ method[c] \in DOMAIN rateLimiter
        /\ rateLimiter[method[c]] = 2

C4_Steps ==
    \A c \in Callers :
        /\ Len(sent'[c]) # Len(sent[c]) =>
              /\ pc[c] = "call" /\ Len(sent'[c]) = Len(sent[c]) + 1
              /\ rateLimiter' = rateLimiter
        /\ pc'[c] = "call" /\ pc[c] # "call" =>
              /\ pc[c] = "update" /\ attempt'[c] = attempt[c]
              /\ rateLimiter' =
                    [m \in DOMAIN rateLimiter \cup {method[c]} |->
                        IF m = method[c] THEN 0 ELSE rateLimiter[m]]
        /\ pc[c] = "call" /\ pc'[c] # "call" => Len(sent'[c]) = Len(sent[c]) + 1

\* the ledger is written (an entry appears or gets younger) only by an update step
C4_LedgerWrites ==
    \A m \in DOMAIN rateLimiter' :
        (m \notin DOMAIN rateLimiter \/ rateLimiter'[m] < rateLimiter[m]) =>
            \E c \in Callers : method[c] = m /\ pc[c] = "update" /\ pc'[c] = "call"

(***************************************************************************)
(* C4: a dispatch is sent only right after updateRateLimit(method) in the  *)
(* same attempt, which sets the ledger entry to the current time whatever  *)
(* the dispatch then yields; nothing else writes the ledger, in particular *)
(* no step that knows the result of a dispatch.                            *)
(***************************************************************************)
C4_UpdateBeforeDispatch == [][C4_Steps /\ C4_LedgerWrites]_vars

\* C4: a dispatch that failed at transport level, its ledger entry just written
C4_Witness ==
    \E c \in Callers :
        /\ pc[c] = "sleep" /\ why[c] = "transport"
        /\ rateLimiter[method[c]] = 0

C5_State ==
    \A c \in Callers :
        TransportFailed(c) =>
            IF attempt[c] < 2
            THEN /\ pc[c] = "sleep" /\ why[c] = "transport"
                 /\ delay[c] = (IF attempt[c] = 0 THEN 1 ELSE 2)
            ELSE /\ pc[c] = "done"
                 /\ ret[c] = [resp |-> NilResponse, err |-> out[c].err]

C5_Step ==
    \A c \in Callers :
        /\ TransportFailed(c) /\ pc'[c] # pc[c] =>
              /\ pc[c] = "sleep" /\ pc'[c] = "check"
              /\ attempt'[c] = attempt[c] + 1
        /\ pc[c] = "call" /\ attempt[c] = 2 /\ out'[c].err \notin {NoError, "none"} =>
              slept'[c] = slept[c] /\ pc'[c] = "done"

(***************************************************************************)
(* C5: a transport failure at attempt index i < 2 is followed by a sleep   *)
(* of 1s * 2^i (1s, then 2s) and the next attempt; at i = 2 the call       *)
(* returns that error with no response and without sleeping.               *)
(***************************************************************************)
C5_TransportBackoff == []C5_State /\ [][C5_Step]_vars

\* C5: the second transport failure of a call, asleep for 2 seconds
C5_Witness ==
    \E c \in Callers :
        /\ pc[c] = "sleep" /\ why[c] = "transport"
        /\ attempt[c] = 1 /\ delay[c] = 2 /\ Len(sent[c]) = 2

(***************************************************************************)
(* C6: after a 429 at attempt index i < 2 the caller sleeps for the        *)
(* duration parseRetryAfter gives for the annotated retryAfter string when *)
(* it gives one, and otherwise (no hint, hint unparseable) for             *)
(* 1s * 2^(i+1), which is longer than the transport delay at i.            *)
(***************************************************************************)
C6_ThrottleDelay ==
    \A c \in Callers :
        Got429(c) /\ attempt[c] < 2 =>
            /\ pc[c] = "sleep"
            /\ IF Hinted(c)
               THEN delay[c] = parseRetryAfter(out[c].resp.Error.fields["retryAfter"].s).d
               ELSE /\ delay[c] = (IF attempt[c] = 0 THEN 2 ELSE 4)
                    /\ delay[c] > TransportDelay(attempt[c])

\* C6: a 429 whose hint does not parse, on the second attempt: 4 seconds
C6_Witness ==
    \E c \in Callers :
        /\ Got429(c) /\ attempt[c] = 1 /\ ~Hinted(c)
        /\ "retryAfter" \in DOMAIN out[c].resp.Error.fields
        /\ pc[c] = "sleep" /\ delay[c] = 4

(***************************************************************************)
(* C7: a 429 on the last attempt is returned as that response with a nil   *)
(* error, a transport failure on the last attempt as a nil response with   *)
(* the error; no call returns both a response and an error.                *)
(***************************************************************************)
C7_Exhaustion ==
    \A c \in Callers :
        pc[c] = "done" =>
            /\ ~(~ret[c].resp.isNil /\ ret[c].err # NoError)
            /\ Got429(c) /\ attempt[c] = 2 =>
                  ret[c] = [resp |-> out[c].resp, err |-> NoError] /\ ~ret[c].resp.isNil
            /\ TransportFailed(c) /\ attempt[c] = 2 =>
                  ret[c] = [resp |-> NilResponse, err |-> out[c].err]

\* C7: a call that ended on a 429 at its third dispatch
C7_Witness ==
    \E c \in Callers :
        pc[c] = "done" /\ Got429(c) /\ attempt[c] = 2 /\ Len(sent[c]) = 3

C8_State ==
    \A c \in Callers :
        GotOther(c) => pc[c] = "done" /\ ret[c] = [resp |-> out[c].resp, err |-> NoError]

C8_Step ==
    \A c \in Callers :
        /\ pc[c] = "call" /\ out'[c].err = NoError /\ pc'[c] = "done" =>
              slept'[c] = slept[c] /\ rateLimiter' = rateLimiter
        /\ pc[c] = "done" =>
              /\ pc'[c] = "done" /\ ret'[c] = ret[c]
              /\ slept'[c] = slept[c] /\ Len(sent'[c]) = Len(sent[c])

(***************************************************************************)
(* C8: a response that is not a 429 error (a result, an error object with  *)
(* another code, an error that is no object) is returned at once: the call *)
(* does not sleep, dispatch or write the ledger again.                     *)
(***************************************************************************)
C8_ReturnedAtOnce == []C8_State /\ [][C8_Step]_vars

\* C8: an error that is no object, returned from the first attempt
C8_Witness ==
    \E c \in Callers :
        /\ pc[c] = "done" /\ attempt[c] = 0 /\ slept[c] = 0
        /\ ret[c].resp.Error.kind = "string"

C9_Outcome ==
    \A c \in Callers :
        /\ Len(sent[c]) <= 3
        /\ pc[c] = "done" =>
              \/ ~ret[c].resp.isNil /\ ret[c].err = NoError /\ attempt[c] < 3
              \/ /\ ret[c].resp.isNil /\ ret[c].err \in {"post failed", "decode failed"}
                 /\ ret[c].err = out[c].err /\ attempt[c] = 2
              \/ /\ ret[c].resp.isNil /\ ret[c].err = "max retries exceeded"
                 /\ attempt[c] = 3 /\ out[c] = NoOutcome

(***************************************************************************)
(* C9: every call ends, after at most 3 dispatches, in one of: a response  *)
(* with a nil error; the transport error of its last dispatch; the error   *)
(* "max retries exceeded", which is returned only when the attempts ran    *)
(* out.                                                                    *)
(***************************************************************************)
C9_Terminates ==
    /\ []C9_Outcome
    /\ \A c \in Callers : (pc[c] # "idle") ~> (pc[c] = "done")

\* C9: a call that ran out of attempts
C9_Witness ==
    \E c \in Callers : pc[c] = "done" /\ ret[c].err = "max retries exceeded"

(***************************************************************************)
(* C10: the time one call spends in its own sleeps is at most 3 x 5        *)
(* minutes, whatever the upstream answers and hints.                       *)
(***************************************************************************)
C10_SleepBound == \A c \in Callers : slept[c] <= 3 * MaxRetryAfter

\* C10: a call that slept the 5 minute cap twice
C10_Witness == \E c \in Callers : slept[c] >= 2 * MaxRetryAfter

(***************************************************************************)
(* C11, as stated: getFromCache(key) returns (value, true) only if an      *)
(* entry for key exists and the current time is strictly before its        *)
(* expiry; at the expiry instant and after it, it returns (nil, false).    *)
(***************************************************************************)
C11_HitOnlyBeforeExpiry ==
    [][\A g \in Callers :
          user[g].pc = "read" /\ user'[g].pc = "idle" =>
              IF user[g].key \in DOMAIN cache /\ cache[user[g].key].left > 0
              THEN user'[g].got = [data |-> cache[user[g].key].Data, found |-> TRUE]
              ELSE user'[g].got = [data |-> "nil", found |-> FALSE]]_vars

C12_WriteStep ==
    \A g \in Callers :
        user[g].pc = "write" /\ user'[g].pc # "write" =>
            /\ mutex.writer = <<"user", g>>
            /\ DOMAIN cache' = DOMAIN cache \cup {user[g].key}
            /\ cache'[user[g].key] = [Data |-> user[g].data, left |-> user[g].ttl]
            /\ \A k \in DOMAIN cache : k # user[g].key => cache'[k] = cache[k]

C12_LastLockerWins ==
    \A k \in DOMAIN stored :
        (\A g \in Callers : ~(user[g].pc = "write" /\ user[g].key = k)) =>
            k \in DOMAIN cache /\ cache[k].Data = stored[k].Data

(***************************************************************************)
(* C12: setCache(key, value, ttl) replaces whatever entry the key has,     *)
(* live or expired, by (value, now + ttl) and leaves every other key's     *)
(* entry as it was; with concurrent setCache calls on one key the entry    *)
(* is the one of the call that acquired the write lock last.               *)
(***************************************************************************)
C12_SetCacheOverwrites == []C12_LastLockerWins /\ [][C12_WriteStep]_vars

\* C12: two setCache calls on one key with different values, one has written
\* and the other waits for the lock
C12_Witness ==
    \E g \in Callers, h \in Callers :
        /\ user[g].pc = "Unlock" /\ user[h].pc = "Lock"
        /\ user[g].key = user[h].key /\ user[g].data # user[h].data
        /\ cache[user[g].key].Data = user[g].data
        /\ stored[user[g].key].by = g

(***************************************************************************)
(* C13: no step removes a key from the cache, and getFromCache leaves the  *)
(* cache map as it is on a hit, on a miss and on an expired entry, so the  *)
(* set of keys in the cache never shrinks.                                 *)
(***************************************************************************)
C13_KeysNeverRemoved ==
    [][/\ DOMAIN cache \subseteq DOMAIN cache'
       /\ \A g \in Callers :
             user'[g] # user[g] /\ (user[g].pc = "read" \/ user'[g].pc = "read") =>
                 cache' = cache]_vars

\* C13: a lookup of an expired entry has returned absence, and the entry is
\* still in the map
C13_Witness ==
    \E g \in Callers :
        /\ user[g].pc = "idle" /\ user[g].key \in DOMAIN cache
        /\ Expired(cache[user[g].key])
        /\ user[g].got = [data |-> "nil", found |-> FALSE]

\* the published value and the time it was computed
Published == <<lastBlockTime, lastBlockTimeCheck>>

\* callers that are inside GetCachedBlockTime, and callers that have returned
InCall(r) == reader[r].pc \in {"RLock1", "test1", "go", "RLock2", "test2"}
Returned(r) == reader[r].pc \in {"returned:357", "returned:367", "returned:371"}

C14_InBand ==
    /\ lastBlockTime.n * 10 >= lastBlockTime.d
    /\ lastBlockTime.n <= 2 * lastBlockTime.d

C14_Step ==
    /\ \A s \in Runs :
          /\ run[s].pc = "second" /\ run'[s] # run[s] /\ ~run[s].err
          /\ run[s].laterSlot > run[s].currentSlot
          /\ \/ run[s].laterSlot - run[s].currentSlot < 2
             \/ run[s].laterSlot - run[s].currentSlot > 30
          => run'[s].pc = "free" /\ Published' = Published
    /\ lastBlockTime' # lastBlockTime =>
          \E s \in Runs :
              /\ run[s].pc = "value" /\ lastBlockTime' = run[s].blockTime
              /\ run[s].blockTime.n = 3
              /\ run[s].blockTime.d >= 2 /\ run[s].blockTime.d <= 30

(***************************************************************************)
(* C14: the published block time is always within [0.1, 2.0] seconds: it   *)
(* starts at 0.4 and is written only with 3 seconds / height delta for a   *)
(* delta from 2 to 30; a sample outside the band (delta 1, delta above     *)
(* 30) ends the run with lastBlockTime and lastBlockTimeCheck unchanged.   *)
(***************************************************************************)
C14_BlockTimeInBand == []C14_InBand /\ [][C14_Step]_vars

\* C14: the value at the lower edge of the band (delta 30) is published, and a
\* run has measured 3.0 seconds per block (delta 1)
C14_Witness ==
    /\ lastBlockTime = Ratio(3, 30)
    /\ \E s \in Runs :
          /\ run[s].pc = "second" /\ ~run[s].err
          /\ run[s].laterSlot - run[s].currentSlot = 1

(***************************************************************************)
(* C15, as stated: GetCachedBlockTime returns the value that was published *)
(* before the call.                                                        *)
(***************************************************************************)
C15_ReturnsValueBeforeCall ==
    \A r \in Callers : Returned(r) => reader[r].ret = reader[r].atCall

C15_Unhindered ==
    \A r \in Callers :
        /\ reader[r].pc \in {"RLock1", "RLock2"} /\ CanRLock =>
              ENABLED GetCachedBlockTimeRLock(r)
        /\ reader[r].pc = "test1" => ENABLED GetCachedBlockTimeFirst(r)
        /\ reader[r].pc = "go" => ENABLED GetCachedBlockTimeGo(r)
        /\ reader[r].pc = "test2" => ENABLED GetCachedBlockTimeSecond(r)

C15_ReturnStep ==
    \A r \in Callers :
        InCall(r) /\ Returned(r)' =>
            /\ reader[r].pc \in {"test1", "test2"}
            /\ reader'[r].ret = lastBlockTime
            /\ run' = run /\ Published' = Published

(***************************************************************************)
(* C15, amended: GetCachedBlockTime never waits for a sampling run: each   *)
(* of its steps can be taken whatever the runs are doing, except that      *)
(* RLock waits while a writer holds or awaits the lock, and every call     *)
(* returns even if no run ever makes progress; it returns the value that   *)
(* is published when it last holds the read lock, which may have been      *)
(* written during the call.                                                *)
(***************************************************************************)
C15_NeverWaitsForSampling ==
    /\ []C15_Unhindered
    /\ [][C15_ReturnStep]_vars
    /\ \A r \in Callers : InCall(r) ~> Returned(r)

\* C15: a call that returned, from its second read, a value that was published
\* during the call, while the run it started or another is still under way
C15_Witness ==
    \E r \in Callers :
        /\ reader[r].pc = "returned:367"
        /\ reader[r].ret # reader[r].atCall
        /\ \E s \in Runs : run[s].pc \in {"GetSlot", "first", "Sleep"}

C16_Step ==
    \A r \in Callers :
        /\ reader[r].pc = "test1" /\ reader'[r].pc # "test1" =>
              /\ run' = run /\ Published' = Published
              /\ cache' = cache /\ rateLimiter' = rateLimiter
              /\ IF lastBlockTimeCheck >= 30
                 THEN reader'[r].pc = "go"
                 ELSE reader'[r].pc = "returned:357"
        /\ reader[r].pc = "go" /\ reader'[r].pc # "go" =>
              /\ \E s \in Runs :
                    /\ run[s].pc = "free" /\ run'[s].pc = "GetSlot"
                    /\ \A t \in Runs \ {s} : run'[t] = run[t]
              /\ Published' = Published
        /\ InCall(r) /\ reader[r].pc # "go" /\ reader'[r] # reader[r] => run' = run

C16_Starts ==
    \A s \in Runs :
        run[s].pc = "free" /\ run'[s].pc # "free" =>
            \E r \in Callers : reader[r].pc = "go" /\ reader'[r].pc = "RLock2"

(***************************************************************************)
(* C16: a call to GetCachedBlockTime starts a sampling run if and only if  *)
(* the published value was never computed or was computed 30 seconds ago   *)
(* or more; a call made less than 30 seconds after the last accepted       *)
(* sample starts no run and changes no state; no run starts otherwise.     *)
(***************************************************************************)
C16_StartsRunIffStale == [][C16_Step /\ C16_Starts]_vars

\* C16: one call has returned the value of a sample accepted less than 30
\* seconds ago without starting a run, after another found the value stale
C16_Witness ==
    \E r \in Callers, q \in Callers :
        /\ reader[r].pc = "returned:357" /\ lastBlockTimeCheck < 30
        /\ \A s \in Runs : run[s].pc = "free"
        /\ reader[q].pc = "returned:367"

C17_Step ==
    \A s \in Runs :
        /\ run[s].pc = "first" /\ run'[s] # run[s] =>
              /\ Published' = Published
              /\ run'[s].pc = (IF run[s].err THEN "free" ELSE "Sleep")
        /\ run[s].pc = "second" /\ run'[s] # run[s] =>
              /\ Published' = Published
              /\ IF run[s].err \/ run[s].laterSlot <= run[s].currentSlot
                 THEN run'[s].pc = "free"
                 ELSE run'[s].pc = "Lock" =>
                          run'[s].blockTime = Ratio(3, run[s].laterSlot - run[s].currentSlot)
        /\ run'[s].pc = "free" => run'[s].blockTime = Ratio(0, 1)

(***************************************************************************)
(* C17: a sampling run whose first or second height read fails, or whose   *)
(* second height is not above the first, ends with the published value     *)
(* and its time unchanged; otherwise its candidate is 3 seconds divided by *)
(* the difference of the heights.                                          *)
(***************************************************************************)
C17_SampleOrDiscard == [][C17_Step]_vars

\* C17: one run has a candidate from heights 2 and 32, another has read a
\* second height that is not above its first
C17_Witness ==
    \E s \in Runs, t \in Runs :
        /\ run[s].pc = "Lock" /\ run[s].blockTime = Ratio(3, 30)
        /\ run[t].pc = "second" /\ ~run[t].err
        /\ run[t].laterSlot <= run[t].currentSlot

C18_Paired ==
    /\ mutex.writer = Nobody => lastBlockTime = accepted
    /\ \A r \in Callers : reader[r].pc \in {"test1", "test2"} => lastBlockTime = accepted
    /\ (\A s \in Runs : run[s].pc = "free") => lastBlockTime = accepted

C18_Writes ==
    /\ lastBlockTime' # lastBlockTime =>
          \E s \in Runs : mutex.writer = <<"run", s>> /\ run[s].pc = "value"
    /\ (lastBlockTimeCheck' < lastBlockTimeCheck \/ accepted' # accepted) =>
          \E s \in Runs :
              /\ mutex.writer = <<"run", s>> /\ run[s].pc = "stamp"
              /\ lastBlockTime = run[s].blockTime /\ accepted' = run[s].blockTime
              /\ lastBlockTimeCheck' = 0 /\ mutex'.writer = Nobody

(***************************************************************************)
(* C18: sampling runs may overlap: the value and its time are written      *)
(* together under the exclusive lock, so a reader holding the read lock    *)
(* never sees the value of one run with the time of another, and when no   *)
(* run is writing the published value is that of the accepted run that     *)
(* completed last, or the initial one.                                     *)
(***************************************************************************)
C18_OverlappingRunsSafe == []C18_Paired /\ [][C18_Writes]_vars

\* C18: two runs with different accepted samples, one inside the critical
\* section, the other and a reader waiting for the lock
C18_Witness ==
    \E s \in Runs, t \in Runs, r \in Callers :
        /\ run[s].pc = "stamp" /\ run[t].pc = "Lock"
        /\ run[s].blockTime # run[t].blockTime
        /\ reader[r].pc \in {"RLock1", "RLock2"}

\* the goroutine is at an RLock or a Lock and has no step: it waits for the lock
Blocked(g) ==
    /\ at[g] # <<>>
    /\ Here(g).op \in {"RLock", "Lock"}
    /\ ~ENABLED Move(g)

\* what the goroutine cannot be about to do while it holds the lock
Blocking == {"sleep", "upstream", "return", "RLock", "Lock"}

C19_Released ==
    \A g \in Goroutines :
        Holds(g) => at[g] # <<>> /\ Here(g).op \notin Blocking

C19_NoDeadlock ==
    \A g \in Goroutines :
        Blocked(g) =>
            \E h \in Goroutines \ {g} :
                /\ Holds(h) \/ Me(h) \in mutex.pending
                /\ ENABLED Move(h)

\* C19: in GetTokenAccountsByMint (with makeRPCCallWithRetry inside it),
\* GetCachedBlockTime and updateBlockTimeInBackground a goroutine that holds
\* the read-write lock is never sleeping, waiting for the upstream, returning
\* or acquiring the lock again, and a goroutine that waits for the lock always
\* has another one, holding it or next to get it, that can go on.
C19_LockNeverHeldAcrossWaits == C19_Released /\ C19_NoDeadlock

\* C19: one goroutine sleeps in makeRPCCallWithRetry, another holds the lock and a
\* third waits for it
C19_Witness ==
    \E g, h, k \in Goroutines :
        /\ Len(at[g]) = 2 /\ Here(g).op = "sleep" /\ at[g][2] = 564
        /\ Holds(h)
        /\ Blocked(k)

\* the duration the claim gives for n seconds, in limbs that hold it unwrapped
C20_Claimed(n) ==
    IF Less(Word(MaxRetryAfter, Int64), n) THEN Extend(FiveMinutes, Wide)
    ELSE TimesTenTo(Extend(n, Wide), NanosecondDigits)

\* C20, as stated: for every header that Atoi accepts as the integer n,
\* parseRetryAfter succeeds with the duration min(n, 300) seconds, the
\* multiplication by time.Second being that of 64-bit signed integers.
C20_IntegerSecondsCapped ==
    parsing.pc = "returned" /\ ~Atoi(parsing.retryAfter).err =>
        /\ ~parsing.ret.err
        /\ Extend(parsing.ret.duration, Wide) = C20_Claimed(Atoi(parsing.retryAfter).n)

\* the layouts parseRetryAfter tries: time.RFC1123, then the formats slice
C21_Tried == {"RFC1123"} \cup {formats[i] : i \in 1..Len(formats)}

\* C21: for a header that is a date, parseRetryAfter succeeds exactly when the
\* date is in the primary or a fallback layout and its wait is more than zero
\* and at most 5 minutes, and the duration is then that wait, unclamped; for a
\* date in the past, now, or more than 5 minutes ahead, and for a date in no
\* layout it tries, it returns an error with the duration 0.
C21_DateAcceptedOrError ==
    parsing.pc = "returned" /\ parsing.retryAfter.kind = "date" =>
        LET date == parsing.retryAfter
        IN  IF date.layout \in C21_Tried /\ date.until > 0 /\ date.until <= MaxRetryAfter
            THEN /\ ~parsing.ret.err
                 /\ parsing.ret.duration = Until(date.until)
                 /\ parsing.ret.d = date.until
            ELSE /\ parsing.ret.err
                 /\ parsing.ret.duration = Word(0, Int64)

\* C21: a date in the last fallback layout, exactly 5 minutes ahead, accepted
C21_Witness ==
    /\ parsing.pc = "returned"
    /\ parsing.retryAfter = DateString("RFC3339", MaxRetryAfter)
    /\ ~parsing.ret.err
    /\ parsing.ret.d = MaxRetryAfter

\* the outcome of caller c's dispatch is a response whose error object carries
\* a retryAfter string that parseRetryAfter refuses
C22_Unparsed(c) ==
    /\ out[c].err = NoError
    /\ out[c].resp.Error.kind = "object"
    /\ "retryAfter" \in DOMAIN out[c].resp.Error.fields
    /\ out[c].resp.Error.fields["retryAfter"].kind = "string"
    /\ parseRetryAfter(out[c].resp.Error.fields["retryAfter"].s).err

\* C22: a Retry-After value that does not parse never fails a call: the
\* outcome of makeRPCCall is the response with a nil error, after a 429 with
\* attempts left makeRPCCallWithRetry sleeps baseDelay * 2^(attempt+1) and goes
\* on, otherwise it returns the response with a nil error; and the only errors
\* of makeRPCCall and makeRPCCallWithRetry are those of the POST, of the
\* decoding and of the exhausted attempts.
C22_UnparsedHintNeverFails ==
    \A c \in Callers :
        /\ out[c].err \in {"none", NoError, "post failed", "decode failed"}
        /\ ret[c].err \in {"none", NoError, "post failed", "decode failed",
                           "max retries exceeded"}
        /\ C22_Unparsed(c) =>
              /\ ~out[c].resp.isNil
              /\ IF Got429(c) /\ attempt[c] < maxRetries - 1
                 THEN /\ pc[c] = "sleep" /\ why[c] = "backoff"
                      /\ delay[c] = baseDelay * Pow2(attempt[c] + 1)
                 ELSE /\ pc[c] = "done"
                      /\ ret[c] = [resp |-> out[c].resp, err |-> NoError]

\* C22: a 429 whose hint is a date in the past, on the first attempt: the
\* caller sleeps the 2 seconds of the backoff
C22_Witness ==
    \E c \in Callers :
        /\ C22_Unparsed(c) /\ Got429(c) /\ attempt[c] = 0
        /\ out[c].resp.Error.fields["retryAfter"].s = DateString("RFC1123", 0 - 1)
        /\ pc[c] = "sleep" /\ delay[c] = 2

\* the reply to the POST is a 429 with a Retry-After header and a body that
\* decodes to an envelope whose error is an object
C23_Annotated ==
    /\ exchange.reply.net = "ok"
    /\ exchange.reply.status = StatusTooManyRequests
    /\ exchange.reply.retryAfter # EmptyString
    /\ exchange.reply.decodes
    /\ exchange.reply.error.kind = "object"

\* C23: makeRPCCall sets the retryAfter member of the returned error object,
\* to the header string as it came, exactly when the status is 429, the header
\* is not empty and the body decodes to an envelope whose error is an object;
\* in every other case it adds nothing: it returns no response, or the
\* envelope as the body gave it.
C23_AnnotatedExactlyOn429 ==
    exchange.pc = "returned" =>
        IF C23_Annotated
        THEN /\ exchange.ret.err = NoError
             /\ exchange.ret.resp.Result = exchange.reply.result
             /\ exchange.ret.resp.Error.kind = "object"
             /\ DOMAIN exchange.ret.resp.Error.fields
                    = DOMAIN exchange.reply.error.fields \cup {"retryAfter"}
             /\ \A f \in DOMAIN exchange.ret.resp.Error.fields :
                    exchange.ret.resp.Error.fields[f] =
                        IF f = "retryAfter" THEN JString(exchange.reply.retryAfter)
                        ELSE exchange.reply.error.fields[f]
        ELSE \/ exchange.ret.resp.isNil
             \/ /\ exchange.reply.decodes
                /\ exchange.ret.resp = RPCResponse(exchange.reply.result, exchange.reply.error)
             \/ /\ ~exchange.reply.decodes
                /\ exchange.ret.resp = RPCResponse(JNull, JNull)

\* C23: a 429 whose header is text that is no number or date, annotated as it is
C23_Witness ==
    /\ exchange.pc = "returned"
    /\ C23_Annotated
    /\ exchange.reply.retryAfter = Text(<<"a", "b">>)
    /\ exchange.ret.resp.Error.fields["retryAfter"] = JString(Text(<<"a", "b">>))

\* C24, as stated: every outcome of makeRPCCall is a failure (an error and no
\* response) or a response with a nil error in which exactly one of Result and
\* Error is set, and a body that does not decode gives a failure on every
\* status, 429 included.
C24_FailureOrPopulated ==
    exchange.pc = "returned" =>
        /\ \/ exchange.ret.err # NoError /\ exchange.ret.resp.isNil
           \/ /\ exchange.ret.err = NoError /\ ~exchange.ret.resp.isNil
              /\ (exchange.ret.resp.Result = JNull) # (exchange.ret.resp.Error = JNull)
        /\ exchange.reply.net = "ok" /\ ~exchange.reply.decodes =>
              exchange.ret.err # NoError /\ exchange.ret.resp.isNil

\* the samples of a window that calculateTPS adds to its total
RECURSIVE C25_Valid(_)
C25_Valid(samples) ==
    IF samples = <<>> THEN 0
    ELSE LET sample == Head(samples)
         IN  (IF /\ Float64(sample, "numTransactions").ok
                 /\ Float64(sample, "samplePeriodSecs").ok
                 /\ Float64(sample, "samplePeriodSecs").v > 0
              THEN 1 ELSE 0) + C25_Valid(Tail(samples))

\* C25: calculateTPS returns 0 for an empty window and otherwise the mean of
\* numTransactions/samplePeriodSecs over the samples with a positive period:
\* a sample with a missing, zero or negative period counts neither in the sum
\* nor in the number the sum is divided by.
C25_MeanOverValidSamples ==
    metrics.pc = "computed" =>
        LET valid == C25_Valid(metrics.samples)
        IN  /\ Len(metrics.samples) = 0 => metrics.tps = Ratio(0, 1)
            /\ valid > 0 => metrics.tps = Over(TotalTPS(metrics.samples), Whole(valid))

\* C26: the health label is a total first-match function of (tps, validators)
\* with strict comparisons: Healthy iff tps > 100 and validators > 1000, else
\* Good iff tps > 50 and validators > 500, else Fair iff tps > 10, else Poor.
C26_HealthFirstMatch ==
    metrics.pc = "computed" =>
        LET tps == metrics.tps
            validators == metrics.validatorCount
            healthy == More(tps, Whole(100)) /\ validators > 1000
            good == ~healthy /\ More(tps, Whole(50)) /\ validators > 500
            fair == ~healthy /\ ~good /\ More(tps, Whole(10))
            label == metrics.networkHealth
        IN  /\ label \in {"Healthy", "Good", "Fair", "Poor"}
            /\ label = "Healthy" <=> healthy
            /\ label = "Good" <=> good
            /\ label = "Fair" <=> fair
            /\ label = "Poor" <=> ~healthy /\ ~good /\ ~fair
            /\ tps = Whole(100) /\ validators = 1001 => label = "Good"
            /\ tps = Whole(101) /\ validators = 600 => label = "Good"
            /\ tps = Whole(200) /\ validators = 10 => label = "Fair"
            /\ tps = Whole(10) => label = "Poor"

\* 100 transactions per second exactly, with 1001 validators, is Good
C26_Witness ==
    /\ metrics.pc = "computed"
    /\ metrics.tps = Whole(100)
    /\ metrics.validatorCount = 1001
    /\ metrics.networkHealth = "Good"

\* C27: epoch progress is (slotIndex / slotsInEpoch) * 100 when slotsInEpoch
\* is positive and 0 when it is zero, negative or missing; nothing is ever
\* divided by zero.
C27_EpochProgressGuarded ==
    metrics.pc = "computed" =>
        LET epochInfo == metrics.epochInfo
            positive == /\ "slotsInEpoch" \in DOMAIN epochInfo
                        /\ epochInfo.slotsInEpoch.kind = "number"
                        /\ epochInfo.slotsInEpoch.n > 0
            slotIndex == IF "slotIndex" \in DOMAIN epochInfo /\ epochInfo.slotIndex.kind = "number"
                         THEN epochInfo.slotIndex.n ELSE 0
        IN  /\ metrics.epochProgress.d > 0
            /\ positive => metrics.epochProgress.n * epochInfo.slotsInEpoch.n
                               = slotIndex * 100 * metrics.epochProgress.d
            /\ ~positive => metrics.epochProgress = Ratio(0, 1)
            /\ (positive /\ slotIndex = 25 /\ epochInfo.slotsInEpoch.n = 100)
                   => metrics.epochProgress = Whole(25)

\* an epoch info with a negative slotsInEpoch was answered with progress 0
C27_Witness ==
    /\ metrics.pc = "computed"
    /\ "slotsInEpoch" \in DOMAIN metrics.epochInfo
    /\ metrics.epochInfo.slotsInEpoch.kind = "number"
    /\ metrics.epochInfo.slotsInEpoch.n < 0
    /\ "slotIndex" \in DOMAIN metrics.epochInfo
    /\ metrics.epochProgress = Ratio(0, 1)

\* the upstream record of a reply carries the members the lookup reads
C28_Carries(reply, fn) ==
    LET value == Member(reply.result, "value")
    IN  /\ reply.decodes
        /\ reply.error.kind = "null"
        /\ value.kind = "object"
        /\ IF fn = "GetAccountInfo"
           THEN Member(value, "lamports").kind = "number" /\ Member(value, "owner").kind = "string"
           ELSE Member(value, "amount").kind = "string" /\ Member(value, "decimals").kind = "number"

\* C28: GetAccountInfo and GetTokenSupply post their own request once and,
\* when the exchange itself succeeded, return a result object with a nil
\* error whose IsValid is true exactly for an upstream record that carries
\* the expected fields (lamports and owner, amount and decimals): a JSON-RPC
\* error, a null result, a wrong shape or a missing field gives IsValid false.
C28_InvalidWhenMalformed ==
    (/\ lookup.pc = "returned"
     /\ lookup.fn \in {"GetAccountInfo", "GetTokenSupply"}
     /\ makeRPCCall(lookup.reply).err = NoError) =>
        /\ lookup.ret.err = NoError
        /\ ~lookup.ret.info.isNil
        /\ lookup.ret.info.IsValid <=> C28_Carries(lookup.reply, lookup.fn)
        /\ lookup.ret.posts <= (IF lookup.fn = "GetTokenSupply" THEN 2 ELSE 1)

\* what the ledger holds for method m: whether it has an entry, and its age
C29_Entry(ledger, m) == IF m \in DOMAIN ledger THEN <<TRUE, ledger[m]>> ELSE <<FALSE, 0>>

\* the locals of caller c's call of makeRPCCallWithRetry
C29_Locals(c) ==
    <<pc[c], method[c], attempt[c], remain[c], delay[c], why[c], out[c], ret[c],
      sent[c], slept[c]>>

\* C29: rate-limit and retry state is independent per method and per call.
\* A step of a call for method m1 (its check, its ledger update, its dispatch,
\* its continue) changes the ledger entry of no other method, hence the
\* eligibility of no other method, and changes nothing of another call: not
\* its position, attempt counter, delay or result.  The check of m1 is decided
\* by the entry of m1 alone.
C29_IndependentPerMethodAndCall ==
    [][\A c \in Callers :
           pc'[c] # pc[c] =>
               /\ \A m \in Methods \ {method'[c]} :
                      /\ C29_Entry(rateLimiter', m) = C29_Entry(rateLimiter, m)
                      /\ checkRateLimit(rateLimiter', m) = checkRateLimit(rateLimiter, m)
               /\ \A o \in Callers \ {c} : C29_Locals(o)' = C29_Locals(o)
               /\ pc[c] = "check" =>
                      (pc'[c] = "update" <=>
                           ~(C29_Entry(rateLimiter, method[c])[1]
                               /\ C29_Entry(rateLimiter, method[c])[2] < RateLimitInterval * Second))
               /\ pc[c] = "update" => C29_Entry(rateLimiter', method[c]) = <<TRUE, 0>>
      ]_vars

\* a call has just stamped its method while a call for another method, whose
\* entry is older, is in the sleep after its first attempt
C29_Witness ==
    \E c \in Callers, o \in Callers :
        /\ pc[c] = "call" /\ pc[o] = "sleep"
        /\ method[c] # method[o]
        /\ C29_Entry(rateLimiter, method[c]) = <<TRUE, 0>>
        /\ C29_Entry(rateLimiter, method[o])[1]
        /\ C29_Entry(rateLimiter, method[o])[2] > 0
        /\ remain[o] > 0

\* the retrying call ended in a transport error or in "max retries exceeded",
\* in a JSON-RPC error (a final 429 among them), or in a malformed result
C30_Failed(o) ==
    \/ o.err # NoError
    \/ o.resp.Error.kind # "null"
    \/ o.resp.Result.kind # "object"
    \/ Member(o.resp.Result, "value").kind # "array"

\* C30: GetTokenAccountsByMint never returns an error.  When the rate limiter
\* rejects the pre-check it returns an empty list, with no dispatch and no
\* update of the ledger; when the retrying call ends in a transport error, in
\* "max retries exceeded", in a final 429, in another JSON-RPC error or in a
\* malformed result, it returns an empty list and a nil error.
C30_NeverAnError ==
    /\ [](byMint.pc = "returned" =>
              /\ byMint.ret.err = NoError
              /\ byMint.from = "ratelimit" => byMint.ret.holders = EmptyList
              /\ (byMint.from = "upstream" /\ C30_Failed(ret[1]))
                     => byMint.ret.holders = EmptyList)
    /\ [][(byMint.pc = "missed" /\ byMint'.pc = "returned") =>
              /\ ~checkRateLimit(rateLimiter, HoldersMethod)
              /\ rateLimiter' = rateLimiter
              /\ sent' = sent /\ pc' = pc /\ attempt' = attempt
              /\ cache' = cache
         ]_vars

\* a request was answered with the empty list because the retrying call had
\* used up its attempts
C30_Witness ==
    /\ byMint.pc = "returned"
    /\ byMint.from = "upstream"
    /\ ret[1].err = "max retries exceeded"
    /\ byMint.ret = [holders |-> EmptyList, err |-> NoError]

\* C31: fixed-point scaling.  GetAccountInfo and GetBalance report
\* balance = lamports / 10^9 and GetTokenSupply reports
\* actualSupply = supply / 10^decimals: balance * 10^9 = lamports and
\* actualSupply * 10^decimals = supply for every non-negative integer input.
C31_ScalingExact ==
    (lookup.pc = "returned" /\ lookup.ret.err = NoError) =>
        LET value == Member(lookup.reply.result, "value")
            info == lookup.ret.info
        IN  /\ lookup.fn = "GetBalance" =>
                   info.Balance = Scaled(Word(value.n, Wide), 9)
            /\ (lookup.fn = "GetAccountInfo" /\ info.IsValid) =>
                   info.Balance = Scaled(Word(info.Lamports, Wide), 9)
            /\ (lookup.fn = "GetTokenSupply" /\ info.IsValid) =>
                   info.ActualSupply = Scaled(info.Supply \o Limbs(0, Wide - Int64), info.Decimals)

\* C32: with a single caller and an upstream whose every dispatch fails
\* quickly at the transport level, makeRPCCallWithRetry dispatches exactly 3
\* times, sleeping 1s after the first failure and 2s after the second, and
\* only then returns the transport error.
C32_FullBudget ==
    pc[1] = "done" =>
        /\ Len(sent[1]) = maxRetries
        /\ slept[1] = 1 + 2
        /\ ret[1].err \in {"post failed", "decode failed"}

\* C33: with a single caller and an upstream that answers every dispatch
\* with a JSON-RPC 429 error, makeRPCCallWithRetry dispatches exactly 3 times
\* and then returns the last 429 response, whatever the Retry-After hint is:
\* absent, unparseable, or parseable, "0" and "1" included.
C33_ThreeDispatchesOn429 ==
    pc[1] = "done" =>
        /\ Len(sent[1]) = maxRetries
        /\ ret[1].err = NoError
        /\ ~ret[1].resp.isNil
        /\ Member(ret[1].resp.Error, "code") = JNumber(429)

\* the JSON-RPC method a lookup posts first
C34_Method(fn) ==
    CASE fn = "GetAccountInfo" -> "getAccountInfo"
      [] fn = "GetBalance" -> "getBalance"
      [] fn = "GetTokenSupply" -> "getTokenSupply"
      [] OTHER -> "none"

\* C34: every upstream dispatch of the access layer, for every method it
\* consumes, happens only after checkRateLimit reported the method eligible
\* and updateRateLimit recorded the attempt in the ledger: once a lookup has
\* posted its request, the ledger has an entry for its method.
C34_DispatchOnlyAfterLedger ==
    (lookup.pc = "returned" /\ lookup.ret.posts > 0) =>
        C34_Method(lookup.fn) \in DOMAIN rateLimiter

\* the cache holds an entry under key that has not expired
C35_Live(key) == key \in DOMAIN cache /\ ~Expired(cache[key])

\* C35: a cache hit flattens the request.  A call of GetTokenAccountsByMint
\* (key: mint and limit) or a performance query (key: time range and limit)
\* that finds a live entry returns the stored value at once, with no dispatch
\* and no change to the rate-limit ledger or to the cache; so after one
\* request has stored a result, every identical request that starts before
\* the expiry causes no dispatch.
C35_HitFlattens ==
    /\ [][(byMint' # byMint /\ byMint.pc \in {"none", "returned"}
              /\ C35_Live(HoldersKey(byMint'.limit))) =>
              /\ byMint'.pc = "returned"
              /\ byMint'.from = "cache"
              /\ byMint'.ret = [holders |-> cache[HoldersKey(byMint'.limit)].Data,
                                err |-> NoError]
              /\ rateLimiter' = rateLimiter /\ cache' = cache
              /\ sent' = sent /\ pc' = pc /\ attempt' = attempt
         ]_vars
    /\ [][(performance' # performance /\ performance.pc \in {"none", "returned"}
              /\ C35_Live(PerformanceKey(performance'.timeRange, performance'.limit))) =>
              /\ performance'.pc = "returned"
              /\ performance'.cached /\ performance'.status = 200
              /\ performance'.posts = 0
              /\ performance'.samples =
                     cache[PerformanceKey(performance'.timeRange, performance'.limit)].Data
              /\ rateLimiter' = rateLimiter /\ cache' = cache
              /\ sent' = sent /\ pc' = pc /\ attempt' = attempt
         ]_vars
    /\ [](performance.pc = "returned" /\ ~performance.cached => performance.posts = 1)
    /\ [](byMint.pc = "returned" /\ byMint.from = "cache" => pc[1] \in {"idle", "done"})

\* both kinds of request have been answered from the cache, each at the
\* last instant of its entry
C35_Witness ==
    /\ byMint.pc = "returned" /\ byMint.from = "cache"
    /\ cache[HoldersKey(20)].left = 0
    /\ performance.pc = "returned" /\ performance.cached
    /\ cache[PerformanceKey(performance.timeRange, performance.limit)].left = 0
    /\ Len(performance.samples.items) = 1

\* C36: every call of makeRPCCallWithRetry performs at least one dispatch
\* before it returns, in every interleaving with concurrent callers of the
\* same method: it never returns "max retries exceeded" without having
\* contacted the upstream.
C36_DispatchBeforeReturn ==
    \A c \in Callers :
        pc[c] = "done" => Len(sent[c]) >= 1

\* C37: whenever parseRetryAfter succeeds, its duration d satisfies
\* 0 <= d <= 5 minutes, for every input, "-5" among them; and
\* makeRPCCallWithRetry never sleeps a negative hinted duration.
C37_HintWithinBounds ==
    /\ (parsing.pc = "returned" /\ ~parsing.ret.err) =>
           /\ ~IsNegative(parsing.ret.duration)
           /\ ~Less(FiveMinutes, parsing.ret.duration)
    /\ \A c \in Callers : (pc[c] = "sleep" /\ Got429(c) /\ Hinted(c)) => delay[c] >= 0

\* the step writes the cache: an entry is new, or differs from what the
\* passing of time makes of it
C38_Written ==
    \E k \in DOMAIN cache' :
        \/ k \notin DOMAIN cache
        \/ cache'[k].Data # cache[k].Data
        \/ cache'[k].left > cache[k].left

\* C38: GetTokenAccountsByMint writes the cache only after a well-formed,
\* non-error result of the upstream: the empty lists it returns after a
\* rate-limit rejection, a transport failure, exhausted attempts, a JSON-RPC
\* error or a malformed result are never stored.
C38_StoresOnlyResults ==
    /\ [][C38_Written =>
              /\ byMint.pc = "retrying" /\ byMint'.pc = "returned"
              /\ ~C30_Failed(ret[1])
              /\ cache'[HoldersKey(byMint.limit)] = CacheEntry(byMint'.ret.holders, HoldersTTL)
              /\ \A k \in DOMAIN cache : k # HoldersKey(byMint.limit) => cache'[k] = cache[k]
         ]_vars
    /\ [][(byMint'.pc = "returned" /\ byMint.pc # "returned"
              /\ byMint'.from \in {"ratelimit", "upstream"}
              /\ (byMint'.from = "upstream" => C30_Failed(ret[1]))) =>
              /\ byMint'.ret.holders = EmptyList
              /\ cache' = cache
         ]_vars
    /\ [](\A k \in DOMAIN cache : cache[k].Data # EmptyList)

\* after a stored result had expired, a request failed at the upstream and
\* left the expired entry as it was; the list it returned is not in the cache
C38_Witness ==
    /\ byMint.pc = "returned" /\ byMint.from = "upstream"
    /\ C30_Failed(ret[1])
    /\ byMint.ret.holders = EmptyList
    /\ HoldersKey(byMint.limit) \in DOMAIN cache
    /\ Expired(cache[HoldersKey(byMint.limit)])

\* the sampling runs under way
C39_InFlight(runs) == {s \in Runs : runs[s].pc # "free"}

\* C39: lastBlockTimeCheck advances only when a sample is accepted; a run that
\* fails or discards its sample leaves it as it was.  So once the value is
\* stale (or before the first accepted sample, the time stamp being zero)
\* every call of GetCachedBlockTime starts another sampling run, whatever
\* runs are under way: their number is bounded only by the number of calls
\* within the 3 seconds of a run.
C39_StaleUntilAccepted ==
    [][/\ lastBlockTimeCheck' < lastBlockTimeCheck =>
              \E s \in Runs :
                  /\ run[s].pc = "stamp" /\ run'[s].pc = "free"
                  /\ Plausible(run[s].blockTime)
                  /\ lastBlockTime = run[s].blockTime
                  /\ lastBlockTimeCheck' = 0
       /\ \A s \in Runs :
              (run[s].pc \in {"first", "second"} /\ run'[s].pc = "free") =>
                  lastBlockTimeCheck' = lastBlockTimeCheck
       /\ \A r \in Callers :
              /\ (reader[r].pc = "test1" /\ reader'[r].pc # "test1"
                      /\ lastBlockTimeCheck >= FreshWindow) => reader'[r].pc = "go"
              /\ (reader[r].pc = "go" /\ reader'[r].pc # "go") =>
                     /\ C39_InFlight(run) \subseteq C39_InFlight(run')
                     /\ Cardinality(C39_InFlight(run')) = Cardinality(C39_InFlight(run)) + 1
      ]_vars

\* no sample was ever accepted: the first run ended without one while the run
\* that a call had started beside it is still under way, and a further call
\* is about to start a third
C39_Witness ==
    /\ lastBlockTimeCheck = FreshWindow
    /\ accepted = Ratio(2, 5) /\ lastBlockTime = Ratio(2, 5)
    /\ run[1].pc = "free" /\ run[2].pc = "Sleep"
    /\ \E r \in Callers : reader[r].pc = "go"

\* C40: every value GetCachedBlockTime returns lies in [0.1, 2.0]:
\* lastBlockTime starts at 0.4 and is overwritten only by samples within the
\* band, so lastBlockTime > 0 holds always and the final return 0.4 of
\* GetCachedBlockTime is never reached.
C40_ReturnsInBand ==
    /\ Positive(lastBlockTime)
    /\ \A r \in Callers :
           /\ reader[r].pc # "returned:371"
           /\ reader[r].pc \in {"returned:357", "returned:367"} =>
                  /\ AtLeast(reader[r].ret, MinBlockTime)
                  /\ AtMost(reader[r].ret, MaxBlockTime)

\* the lower end of the band (3 seconds for 30 slots), returned by a call
\* that found the value stale
C40_Witness ==
    \E r \in Callers : reader[r].pc = "returned:367" /\ reader[r].ret = Ratio(3, 30)

====
